---------------------------- MODULE Spec2Model ----------------------------
(***************************************************************************)
(* A model of the time-ai date-extraction-and-substitution engine:         *)
(* DateParser (convertChronoResult and what it calls), DateFormatter,      *)
(* TimeContextManager and TimeAI (enhancePrompt, parseDates, parseDate,    *)
(* applyStrategy).                                                         *)
(*                                                                         *)
(* Instants are whole seconds since 1970-01-01T00:00:00Z.  Texts are       *)
(* strings; offsets are the 0-based, end-exclusive offsets of the code.    *)
(* The NL date grammar (chrono) is an input: the raw matches it returns    *)
(* for a text are drawn from bounded sets.  Timezones are zones with a     *)
(* fixed UTC offset.                                                       *)
(***************************************************************************)
EXTENDS Integers, Sequences, FiniteSets, TLC

VARIABLES
    clock,      \* the wall clock: what `new Date()` / `dayjs()` returns
    config,     \* TimeAI.config
    context,    \* TimeContextManager.context (now is the pinned reference)
    call,       \* the arguments of the call under study
    out         \* what the call returned, NoResult before it is made

vars == <<clock, config, context, call, out>>

-----------------------------------------------------------------------------
(* Strings *)

Min(a, b) == IF a < b THEN a ELSE b

Max(a, b) == IF a > b THEN a ELSE b

\* String.prototype.substring(a, b): indices clamped to [0, length], swapped
\* when a > b; 0-based, end exclusive.
Substring(s, a, b) ==
    LET ca == Max(0, Min(a, Len(s)))
        cb == Max(0, Min(b, Len(s)))
        lo == Min(ca, cb)
        hi == Max(ca, cb)
    IN  SubSeq(s, lo + 1, hi)

\* String.prototype.substring(a): to the end of the string.
SubstringFrom(s, a) == Substring(s, a, Len(s))

\* String.prototype.includes(w)
Includes(s, w) ==
    \E i \in 1..(Len(s) - Len(w) + 1) : SubSeq(s, i, i + Len(w) - 1) = w

UpperLetters == "ABCDEFGHIJKLMNOPQRSTUVWXYZ"

LowerLetters == "abcdefghijklmnopqrstuvwxyz"

\* The lower-case letter of every upper-case letter
LowerOf ==
    [c \in {SubSeq(UpperLetters, i, i) : i \in 1..26} |->
        LET i == CHOOSE j \in 1..26 : SubSeq(UpperLetters, j, j) = c
        IN  SubSeq(LowerLetters, i, i)]

LowerChar(c) == IF c \in DOMAIN LowerOf THEN LowerOf[c] ELSE c

RECURSIVE ToLowerCase(_)
\* String.prototype.toLowerCase()
ToLowerCase(s) ==
    IF Len(s) = 0 THEN s
    ELSE LowerChar(SubSeq(s, 1, 1)) \o ToLowerCase(SubSeq(s, 2, Len(s)))

Digits == {"0", "1", "2", "3", "4", "5", "6", "7", "8", "9"}

IsDigit(c) == c \in Digits

IsSpace(c) == c = " " \/ c = "\n" \/ c = "\t"

\* \d{n}: n consecutive digits starting at 1-based position i
DigitsAt(s, i, n) ==
    /\ i >= 1
    /\ i + n - 1 <= Len(s)
    /\ \A k \in i..(i + n - 1) : IsDigit(SubSeq(s, k, k))

Digit(d) == SubSeq("0123456789", d + 1, d + 1)

Pad2(n) == Digit((n \div 10) % 10) \o Digit(n % 10)

Pad4(n) == Pad2(n \div 100) \o Pad2(n % 100)

\* Number -> string as a template literal prints a non-negative integer
RECURSIVE NumToString(_)
NumToString(n) ==
    IF n < 10 THEN Digit(n) ELSE NumToString(n \div 10) \o Digit(n % 10)

-----------------------------------------------------------------------------
(* The proleptic Gregorian calendar, as Date, dayjs and Intl compute it *)

SecondsPerDay == 24 * 60 * 60

IsLeapYear(y) == (y % 4 = 0 /\ y % 100 # 0) \/ y % 400 = 0

DaysInMonth(y, m) ==
    IF m = 2 THEN (IF IsLeapYear(y) THEN 29 ELSE 28)
    ELSE IF m \in {4, 6, 9, 11} THEN 30 ELSE 31

\* Days from 1970-01-01 to the civil date y-m-d (m in 1..12).
DaysFromCivil(y, m, d) ==
    LET yy  == IF m <= 2 THEN y - 1 ELSE y
        era == yy \div 400
        yoe == yy - era * 400
        mp  == IF m > 2 THEN m - 3 ELSE m + 9
        doy == (153 * mp + 2) \div 5 + d - 1
        doe == yoe * 365 + yoe \div 4 - yoe \div 100 + doy
    IN  era * 146097 + doe - 719468

\* The civil date of day doy (from March 1st) of year yoe of a 400-year era;
\* mp is the month counted from March
CivilFromMonth(era, yoe, doy, mp) ==
    [year  |-> yoe + era * 400 + (IF mp < 10 THEN 0 ELSE 1),
     month |-> IF mp < 10 THEN mp + 3 ELSE mp - 9,
     day   |-> doy - (153 * mp + 2) \div 5 + 1]

CivilFromDayOfYear(era, yoe, doy) ==
    CivilFromMonth(era, yoe, doy, (5 * doy + 2) \div 153)

CivilFromYearOfEra(era, doe, yoe) ==
    CivilFromDayOfYear(era, yoe,
                       doe - (365 * yoe + yoe \div 4 - yoe \div 100))

CivilFromDayOfEra(era, doe) ==
    CivilFromYearOfEra(era, doe,
        (doe - doe \div 1460 + doe \div 36524 - doe \div 146096) \div 365)

CivilFromShifted(zz) ==
    CivilFromDayOfEra(zz \div 146097, zz - (zz \div 146097) * 146097)

\* The civil date of day number z (days since 1970-01-01).
CivilFromDays(z) == CivilFromShifted(z + 719468)

\* The instant of the UTC wall-clock time y-m-d h:mi:s.
Instant(y, m, d, h, mi, s) ==
    DaysFromCivil(y, m, d) * SecondsPerDay + h * 3600 + mi * 60 + s

-----------------------------------------------------------------------------
(* Timezones and locales *)

\* The identifiers Intl accepts in this model, each a zone with a fixed offset.
ValidTimezones == {"UTC", "Asia/Tokyo", "America/Phoenix"}

\* "en" resolves to the data of en-US: both format alike.
ValidLocales == {"en-US", "en"}

\* The zone's offset from UTC, in seconds (local = UTC + offset).
UtcOffset(tz) ==
    IF tz = "Asia/Tokyo" THEN 9 * 3600
    ELSE IF tz = "America/Phoenix" THEN -(7 * 3600)
    ELSE 0

\* The fallback of getSystemTimezone / getSystemDefaults
SystemTimezone == "UTC"

\* The fallback of getSystemLocale / getSystemDefaults
SystemLocale == "en-US"

\* Wall-clock fields of instant t in a zone with the given offset.
\* The fields of the civil date c at r seconds into day number z.
FieldsOf(c, z, r) ==
    [year |-> c.year, month |-> c.month, day |-> c.day,
     hour |-> r \div 3600, minute |-> (r \div 60) % 60, second |-> r % 60,
     weekday |-> (z + 4) % 7]

\* Wall-clock fields of the reading l (seconds as if it were UTC).
FieldsOfReading(l) ==
    FieldsOf(CivilFromDays(l \div SecondsPerDay), l \div SecondsPerDay,
             l % SecondsPerDay)

LocalFields(t, off) == FieldsOfReading(t + off)

-----------------------------------------------------------------------------
(* dayjs with the utc and timezone plugins: a wall-clock reading (local, *)
(* seconds as if it were UTC) together with the zone's offset            *)

\* dayjs(date) without .tz(timezone): the reading of the UTC clock
DayjsWithoutTz(t, tz) == [local |-> t, off |-> 0]

\* dayjs(date).tz(timezone)
DayjsTz(t, tz) == [local |-> t + UtcOffset(tz), off |-> UtcOffset(tz)]

\* .add(n, 'day') / .subtract(n, 'day')
DayjsAddDays(dj, n) == [dj EXCEPT !.local = @ + n * SecondsPerDay]

\* .startOf('day')
DayjsStartOfDay(dj) == [dj EXCEPT !.local = @ - (@ % SecondsPerDay)]

\* The civil date a dayjs object shows
DayjsCivil(dj) == CivilFromDays(dj.local \div SecondsPerDay)

\* The object moved to the civil date y-m-d, its time of day kept
DayjsSetCivil(dj, y, m, d) ==
    [dj EXCEPT !.local =
        DaysFromCivil(y, m, d) * SecondsPerDay + (@ % SecondsPerDay)]

\* .year(y): the day of the month is clamped to the new month's length
DayjsSetYear(dj, y) ==
    DayjsSetCivil(dj, y, DayjsCivil(dj).month,
                  Min(DayjsCivil(dj).day, DaysInMonth(y, DayjsCivil(dj).month)))

\* .month(m0) as Date.setMonth does it: the day of the month is kept and a
\* day past the month's end rolls over
DayjsSetMonthRollingOver(dj, m0) ==
    [dj EXCEPT !.local =
        (DaysFromCivil(DayjsCivil(dj).year, m0 + 1, 1) + DayjsCivil(dj).day - 1)
                * SecondsPerDay
            + (@ % SecondsPerDay)]

\* .month(m0), m0 0-indexed in 0..11: the day of the month is clamped
DayjsSetMonth(dj, m0) ==
    DayjsSetCivil(dj, DayjsCivil(dj).year, m0 + 1,
                  Min(DayjsCivil(dj).day,
                      DaysInMonth(DayjsCivil(dj).year, m0 + 1)))

\* .date(d): Date.setDate, a day past the month's end rolls over
DayjsSetDate(dj, d) ==
    [dj EXCEPT !.local =
        (DaysFromCivil(DayjsCivil(dj).year, DayjsCivil(dj).month, 1) + d - 1)
                * SecondsPerDay
            + (@ % SecondsPerDay)]

\* .hour(h)
DayjsSetHour(dj, h) ==
    [dj EXCEPT !.local = @ - ((@ % SecondsPerDay) \div 3600) * 3600 + h * 3600]

\* .minute(m)
DayjsSetMinute(dj, m) ==
    [dj EXCEPT !.local = @ - ((@ \div 60) % 60) * 60 + m * 60]

\* .second(s)
DayjsSetSecond(dj, s) == [dj EXCEPT !.local = @ - (@ % 60) + s]

\* .toDate()
DayjsToDate(dj) == dj.local - dj.off

-----------------------------------------------------------------------------
(* DateParser *)

\* What ParsedComponents.get() returns for a component the grammar left out,
\* and an option the caller left out.
Null == 0 - 1

\* result.start.get(c): the component's value, certain or implied, or null.
\* A raw match is [index, text, year, month, day, hour, minute, second, certain].
Get(result, c) ==
    IF c = "year" THEN result.year
    ELSE IF c = "month" THEN result.month
    ELSE IF c = "day" THEN result.day
    ELSE IF c = "hour" THEN result.hour
    ELSE IF c = "minute" THEN result.minute
    ELSE result.second

\* result.start.isCertain(c)
IsCertain(result, c) == c \in result.certain

\* JavaScript truthiness of a component value: neither null nor 0
Truthy(v) == v # Null /\ v # 0

\* dayjs(...).tz(timezone) throws a RangeError for a timezone Intl rejects.
TzThrows(tz) == tz \notin ValidTimezones

HasRelativeDayWord(originalText) ==
    \/ Includes(originalText, "tomorrow")
    \/ Includes(originalText, "yesterday")
    \/ Includes(originalText, "today")

\* The time overlay applying every component that has a value, certain or not
ApplyTimeComponentsImplied(baseDayjs, result, originalText) ==
    LET b1 == IF Get(result, "hour") # Null
              THEN DayjsSetHour(baseDayjs, Get(result, "hour")) ELSE baseDayjs
        b2 == IF Get(result, "minute") # Null
              THEN DayjsSetMinute(b1, Get(result, "minute")) ELSE b1
        b3 == IF Get(result, "second") # Null
              THEN DayjsSetSecond(b2, Get(result, "second")) ELSE b2
    IN  b3

\* The time overlay of constructTimezoneAwareDate: certain hour, minute and
\* second are applied; when none is certain the time is kept for
\* today/tomorrow/yesterday and reset to the start of the day otherwise.
ApplyTimeComponents(baseDayjs, result, originalText) ==
    LET b1 == IF IsCertain(result, "hour")
              THEN DayjsSetHour(baseDayjs, Get(result, "hour")) ELSE baseDayjs
        b2 == IF IsCertain(result, "minute")
              THEN DayjsSetMinute(b1, Get(result, "minute")) ELSE b1
        b3 == IF IsCertain(result, "second")
              THEN DayjsSetSecond(b2, Get(result, "second")) ELSE b2
    IN  IF /\ ~IsCertain(result, "hour")
           /\ ~IsCertain(result, "minute")
           /\ ~IsCertain(result, "second")
        THEN IF HasRelativeDayWord(originalText) THEN b3 ELSE DayjsStartOfDay(b3)
        ELSE b3

\* The base date of constructTimezoneAwareDate before the time overlay.
\* now is the wall clock, referenceDate the caller's reference or Null.
BaseDayjs(result, originalText, targetTimezone, referenceDate, now) ==
    LET referenceDayjs == IF referenceDate # Null
                          THEN DayjsTz(referenceDate, targetTimezone)
                          ELSE DayjsTz(now, targetTimezone)
    IN  IF Includes(originalText, "tomorrow") THEN DayjsAddDays(referenceDayjs, 1)
        ELSE IF Includes(originalText, "yesterday")
             THEN DayjsAddDays(referenceDayjs, 0 - 1)
        ELSE IF Includes(originalText, "today") THEN referenceDayjs
        ELSE LET b0 == DayjsStartOfDay(DayjsTz(now, targetTimezone))
                 b1 == IF Truthy(Get(result, "year"))
                       THEN DayjsSetYear(b0, Get(result, "year")) ELSE b0
                 b2 == IF Truthy(Get(result, "month"))
                       THEN DayjsSetMonth(b1, Get(result, "month") - 1) ELSE b1
                 b3 == IF Truthy(Get(result, "day"))
                       THEN DayjsSetDate(b2, Get(result, "day")) ELSE b2
             IN  b3

\* DateParser.constructTimezoneAwareDate (for a timezone Intl accepts)
ConstructTimezoneAwareDate(result, targetTimezone, referenceDate, now) ==
    LET originalText == ToLowerCase(result.text)
    IN  DayjsToDate(
            ApplyTimeComponents(
                BaseDayjs(result, originalText, targetTimezone, referenceDate, now),
                result, originalText))

AmbiguousWords ==
    {"sometime", "maybe", "perhaps", "possibly", "around", "about", "ish",
     "kinda", "sorta"}

ClearIndicators == {"tomorrow", "yesterday", "today", "next week", "last month"}

\* The confidence returned without clamping
Unclamped(c) == c

\* Math.min(Math.max(confidence, 0), 1), in hundredths
Clamp01(c) == Min(Max(c, 0), 100)

\* DateParser.calculateConfidence; the confidence is counted in hundredths
CalculateConfidence(result) ==
    LET text == ToLowerCase(result.text)
        c0 == 70
        c1 == IF Get(result, "hour") # Null THEN c0 + 15 ELSE c0
        c2 == IF Get(result, "minute") # Null THEN c1 + 10 ELSE c1
        c3 == IF Get(result, "year") # Null THEN c2 + 10 ELSE c2
        c4 == IF \E word \in AmbiguousWords : Includes(text, word)
              THEN c3 - 40 ELSE c3
        c5 == IF Len(result.text) <= 3 THEN c4 - 30 ELSE c4
        c6 == IF \E indicator \in ClearIndicators : Includes(text, indicator)
              THEN c5 + 20 ELSE c5
    IN  Clamp01(c6)

RelativeKeywords ==
    {"today", "tomorrow", "yesterday", "next", "last", "this", "in", "ago",
     "later", "now", "soon", "recently", "week", "month", "year", "day",
     "morning", "afternoon", "evening", "night", "end of", "beginning of",
     "start of"}

StrongRelativeIndicators ==
    {"end of", "beginning of", "start of", "next", "last", "this", "today",
     "tomorrow", "yesterday"}

MonthNames ==
    {"january", "february", "march", "april", "may", "june", "july", "august",
     "september", "october", "november", "december"}

MonthAbbreviations ==
    {"jan", "feb", "mar", "apr", "may", "jun", "jul", "aug", "sep", "oct",
     "nov", "dec"}

CharAt(s, i) == IF i >= 1 /\ i <= Len(s) THEN SubSeq(s, i, i) ELSE ""

\* /\d{1,2}<sep>\d{1,2}<sep>\d{4}/ found somewhere in s
MatchesNumericDate(s, sep) ==
    \E i \in 1..Len(s) :
        /\ IsDigit(CharAt(s, i))
        /\ CharAt(s, i + 1) = sep
        /\ \/ /\ IsDigit(CharAt(s, i + 2))
              /\ CharAt(s, i + 3) = sep
              /\ DigitsAt(s, i + 4, 4)
           \/ /\ DigitsAt(s, i + 2, 2)
              /\ CharAt(s, i + 4) = sep
              /\ DigitsAt(s, i + 5, 4)

\* absoluteIndicators.some(pattern => pattern.test(text))
MatchesAbsoluteIndicator(text) ==
    \/ \E i \in 1..Len(text) : DigitsAt(text, i, 4)
    \/ MatchesNumericDate(text, "/")
    \/ MatchesNumericDate(text, "-")
    \/ \E m \in MonthNames : Includes(text, m)
    \/ \E m \in MonthAbbreviations : Includes(text, m)

\* determineType with the absolute patterns winning over the broader keywords
DetermineTypePatternFirst(result) ==
    IF \E indicator \in StrongRelativeIndicators :
            Includes(ToLowerCase(result.text), indicator)
    THEN "relative"
    ELSE IF MatchesAbsoluteIndicator(ToLowerCase(result.text)) THEN "absolute"
    ELSE IF \E keyword \in RelativeKeywords :
                Includes(ToLowerCase(result.text), keyword)
         THEN "relative" ELSE "absolute"

\* determineType looking at the strong markers only
DetermineTypeStrongOnly(result) ==
    IF \E indicator \in StrongRelativeIndicators :
            Includes(ToLowerCase(result.text), indicator)
    THEN "relative" ELSE "absolute"

\* DateParser.determineType
DetermineType(result) ==
    LET text == ToLowerCase(result.text)
        hasKeyword == \E keyword \in RelativeKeywords : Includes(text, keyword)
    IN  IF \E indicator \in StrongRelativeIndicators : Includes(text, indicator)
        THEN "relative"
        ELSE IF MatchesAbsoluteIndicator(text) /\ ~hasKeyword THEN "absolute"
        ELSE IF hasKeyword THEN "relative" ELSE "absolute"

\* The grain read from the components that have a value, certain or not
DetermineGrainFromValues(result) ==
    IF Get(result, "second") # Null THEN "second"
    ELSE IF Get(result, "minute") # Null THEN "minute"
    ELSE IF Get(result, "hour") # Null THEN "hour"
    ELSE "day"

\* DateParser.determineGrain
DetermineGrain(result) ==
    IF IsCertain(result, "second") THEN "second"
    ELSE IF IsCertain(result, "minute") THEN "minute"
    ELSE IF IsCertain(result, "hour") THEN "hour"
    ELSE "day"

\* DateParser.convertChronoResult; options is [timezone, referenceDate], a
\* timezone of "" and a referenceDate of Null standing for an option left out
ConvertChronoResult(result, options, now) ==
    [originalText |-> result.text,
     resolvedDate |-> ConstructTimezoneAwareDate(
                          result,
                          IF options.timezone # "" THEN options.timezone ELSE "UTC",
                          options.referenceDate, now),
     confidence   |-> CalculateConfidence(result),
     type         |-> DetermineType(result),
     start        |-> result.index,
     end          |-> result.index + Len(result.text),
     grain        |-> DetermineGrain(result)]

\* results.map(result => this.convertChronoResult(result, text, options))
MapConvert(results, options, now) ==
    [i \in 1..Len(results) |-> ConvertChronoResult(results[i], options, now)]

\* parse checking options.timezone before it looks at the matches
ParseValidatingTimezone(results, options, now) ==
    IF options.timezone # "" /\ TzThrows(options.timezone)
    THEN [threw |-> TRUE, value |-> <<>>]
    ELSE [threw |-> FALSE, value |-> MapConvert(results, options, now)]

\* DateParser.parse: results is what chronoInstance.parse(text, referenceDate)
\* returned.  The call throws when a match is converted for a timezone that
\* Intl rejects.
Parse(results, options, now) ==
    IF Len(results) > 0 /\ options.timezone # "" /\ TzThrows(options.timezone)
    THEN [threw |-> TRUE, value |-> <<>>]
    ELSE [threw |-> FALSE, value |-> MapConvert(results, options, now)]

-----------------------------------------------------------------------------
(* The custom parsers of setupCustomParsers.  A Date is read and moved in *)
(* the system timezone: n is its day number there (days since 1970-01-01) *)

\* The day number of new Date(refDate) in the system timezone
SystemDay(refDate) == (refDate + UtcOffset(SystemTimezone)) \div SecondsPerDay

\* Date.prototype.getDay of a day number: 0 is Sunday
GetDay(n) == (n + 4) % 7

RECURSIVE SkipWeekend(_)
\* do { setDate(getDate() + 1) } while (getDay() === 0 || getDay() === 6)
SkipWeekend(n) ==
    IF GetDay(n + 1) = 0 \/ GetDay(n + 1) = 6 THEN SkipWeekend(n + 1) ELSE n + 1

\* The business-day rule with 'this' treated as 'next'
BusinessDayTargetAlwaysNext(isNext, n) == SkipWeekend(n)

\* The business-day rule: the day number of targetDate
BusinessDayTarget(isNext, n) ==
    IF isNext THEN SkipWeekend(n)
    ELSE IF GetDay(n) = 0 \/ GetDay(n) = 6 THEN SkipWeekend(n)
    ELSE n

\* Date.prototype.setMonth(month0, date) on a date of year y: the day number
SetMonth(y, month0, date) ==
    DaysFromCivil(y + month0 \div 12, (month0 % 12) + 1, 1) + date - 1

\* case 'week': the day number of targetDate
EndOfWeekTarget(n) ==
    IF ((5 - GetDay(n) + 7) % 7) = 0 /\ GetDay(n) # 5
    THEN n + 7
    ELSE n + ((5 - GetDay(n) + 7) % 7)

\* The end-of-period rule with setMonth(getMonth() + 1, 1): the first day of
\* the following month
EndOfMonthTargetFirstOfNext(c) == SetMonth(c.year, (c.month - 1) + 1, 1)

\* case 'month': setMonth(getMonth() + 1, 0)
EndOfMonthTarget(c) == SetMonth(c.year, (c.month - 1) + 1, 0)

\* case 'quarter': setMonth((Math.floor(getMonth() / 3) + 1) * 3, 0)
EndOfQuarterTarget(c) == SetMonth(c.year, (((c.month - 1) \div 3) + 1) * 3, 0)

\* case 'year': setFullYear(getFullYear() + 1, 0, 0)
EndOfYearTarget(c) == SetMonth(c.year + 1, 0, 0)

\* The end-of-period rule: the day number of targetDate
EndOfPeriodTarget(period, n) ==
    IF period = "week" THEN EndOfWeekTarget(n)
    ELSE IF period = "month" THEN EndOfMonthTarget(CivilFromDays(n))
    ELSE IF period = "quarter" THEN EndOfQuarterTarget(CivilFromDays(n))
    ELSE IF period = "year" THEN EndOfYearTarget(CivilFromDays(n))
    ELSE n

\* { year: getFullYear(), month: getMonth() + 1, day: getDate() }
RuleComponents(n) ==
    [year |-> CivilFromDays(n).year, month |-> CivilFromDays(n).month,
     day |-> CivilFromDays(n).day]

-----------------------------------------------------------------------------
(* TimeContextManager and DateFormatter *)

WeekdayNames ==
    <<"Sunday", "Monday", "Tuesday", "Wednesday", "Thursday", "Friday",
      "Saturday">>

\* TimeContextManager.validateTimezone: the identifier, or "" for null
ValidateTimezone(timezone) == IF timezone \in ValidTimezones THEN timezone ELSE ""

\* TimeContextManager.validateLocale: the identifier, or "" for null
ValidateLocale(locale) == IF locale \in ValidLocales THEN locale ELSE ""

\* formatDateInTimezone(date, {hour: 'numeric', minute: '2-digit', hour12: true})
\* in the en-US locale: h:mm AM/PM in the context's timezone
FormatTimeInTimezone(date, ctx) ==
    LET f == LocalFields(date, UtcOffset(ctx.timezone))
        h == ((f.hour + 11) % 12) + 1
    IN  NumToString(h) \o ":" \o Pad2(f.minute) \o " "
            \o (IF f.hour < 12 THEN "AM" ELSE "PM")

\* formatDateInTimezone(date, {weekday: 'long'}) in the en-US locale
FormatWeekdayInTimezone(date, ctx) ==
    WeekdayNames[LocalFields(date, UtcOffset(ctx.timezone)).weekday + 1]

\* date.toISOString().split('T')[0]: the UTC calendar date
IsoDate(date) ==
    LET f == LocalFields(date, 0)
    IN  Pad4(f.year) \o "-" \o Pad2(f.month) \o "-" \o Pad2(f.day)

\* DateFormatter.formatCompact
FormatCompact(date) == IsoDate(date)

\* formatDateWithOriginal written like formatHybrid: no date after the words
\* today, tomorrow and yesterday
FormatDateWithOriginalSuppressing(date, originalText, grain) ==
    IF ToLowerCase(originalText) \in {"today", "tomorrow", "yesterday"}
    THEN originalText
    ELSE originalText \o " (" \o FormatCompact(date) \o ")"

\* DateFormatter.formatDateWithOriginal(date, originalText): a third argument
\* (the grain applyStrategy passes) is not a parameter and is ignored
FormatDateWithOriginal(date, originalText, grain) ==
    LET compact == FormatCompact(date)
    IN  originalText \o " (" \o compact \o ")"

\* A header naming the system timezone instead of the manager's
FormatForLLMContextOfSystem(date, ctx) ==
    "Current date: " \o FormatCompact(date) \o " ("
        \o FormatWeekdayInTimezone(date, ctx) \o ", "
        \o NumToString(LocalFields(date, UtcOffset(SystemTimezone)).year)
        \o ")\nTimezone: " \o SystemTimezone

\* DateFormatter.formatForLLMContext(date = new Date()); getFullYear() reads
\* the year in the system timezone
FormatForLLMContext(date, ctx) ==
    LET weekday  == FormatWeekdayInTimezone(date, ctx)
        fullDate == FormatCompact(date)
        year     == LocalFields(date, UtcOffset(SystemTimezone)).year
    IN  "Current date: " \o fullDate \o " (" \o weekday \o ", "
            \o NumToString(year) \o ")\nTimezone: " \o ctx.timezone

\* text.trim().split(/\s+/).filter(word => word.length > 0).length
WordCount(text) ==
    Cardinality({i \in 1..Len(text) :
        /\ ~IsSpace(SubSeq(text, i, i))
        /\ (i = 1 \/ IsSpace(SubSeq(text, i - 1, i - 1)))})

\* A token count rounded down: Math.floor(words.length * 0.75)
GetTokenCountFloor(text) == (3 * WordCount(text)) \div 4

\* DateFormatter.getTokenCount: Math.ceil(words.length * 0.75)
GetTokenCount(text) ==
    IF WordCount(text) = 0 THEN 0 ELSE (3 * WordCount(text) + 3) \div 4

-----------------------------------------------------------------------------
(* Day offsets of TimeContextManager and the styles of DateFormatter.  A  *)
(* Date argument is [valid, t]: t the instant, valid FALSE for a Date     *)
(* whose time value is NaN.  ctx is the manager's context (ctx.now the    *)
(* pinned reference), now the wall clock that getContext().now reads.     *)

ValidDate(t) == [valid |-> TRUE, t |-> t]

InvalidDate == [valid |-> FALSE, t |-> 0]

\* Date.prototype.toISOString throws a RangeError for an invalid Date
ToISOStringThrows(date) == ~date.valid

\* Intl.DateTimeFormat.prototype.format / formatToParts throw a RangeError
\* for an invalid Date
IntlFormatThrows(date) == ~date.valid

\* formatDateInTimezone with a fallback that swallows the error of an invalid
\* Date and returns a string
FormatDateInTimezoneSwallowing(date) == FALSE

\* formatDateInTimezone: the error of Intl is caught, the fallback
\* date.toISOString() is outside the try block
FormatDateInTimezoneThrows(date) ==
    IntlFormatThrows(date) /\ ToISOStringThrows(date)

\* getDatePartsInTimezone: the same try / catch and fallback
GetDatePartsThrows(date) == IntlFormatThrows(date) /\ ToISOStringThrows(date)

\* getDatePartsInTimezone(date): year, month and day in the context's timezone
GetDatePartsInTimezone(t, ctx) ==
    CivilFromDays((t + UtcOffset(ctx.timezone)) \div SecondsPerDay)

\* TimeContextManager.isToday: the reference is getContext().now
IsToday(t, ctx, now) ==
    GetDatePartsInTimezone(now, ctx) = GetDatePartsInTimezone(t, ctx)

\* TimeContextManager.isTomorrow: getContext().now moved by setDate(+1) in the
\* system timezone, then compared in the context's timezone
IsTomorrow(t, ctx, now) ==
    GetDatePartsInTimezone(now + SecondsPerDay, ctx)
        = GetDatePartsInTimezone(t, ctx)

\* Math.ceil(a / b) for b > 0
CeilDiv(a, b) == 0 - ((0 - a) \div b)

\* TimeContextManager.getDaysDifference: Math.ceil of the difference to the
\* pinned reference in days
GetDaysDifference(t, ctx) == CeilDiv(t - ctx.now, SecondsPerDay)

\* Math.round(n / d) for n >= 0, d > 0
RoundDiv(n, d) == (2 * n + d) \div (2 * d)

Plural(n) == IF n > 1 THEN "s" ELSE ""

MonthLongNames ==
    <<"January", "February", "March", "April", "May", "June", "July",
      "August", "September", "October", "November", "December">>

\* The en-US text of {year: 'numeric', month: 'long', day: 'numeric'}
LongDateOf(f) ==
    MonthLongNames[f.month] \o " " \o NumToString(f.day) \o ", "
        \o NumToString(f.year)

\* DateFormatter.formatHuman(date, {})
FormatHuman(t, ctx) == LongDateOf(LocalFields(t, UtcOffset(ctx.timezone)))

\* Date.prototype.toISOString
FormatISO(t) ==
    IsoDate(t) \o "T" \o Pad2(LocalFields(t, 0).hour) \o ":"
        \o Pad2(LocalFields(t, 0).minute) \o ":"
        \o Pad2(LocalFields(t, 0).second) \o ".000Z"

\* The branches of formatRelative with 'this <weekday>' ending at five days
RelativeOfDaysThisToFive(t, ctx, daysDiff) ==
    IF daysDiff = 0 - 1 THEN "yesterday"
    ELSE IF daysDiff > 0 /\ daysDiff <= 14
    THEN (IF daysDiff <= 5 THEN "this " ELSE "next ")
            \o FormatWeekdayInTimezone(t, ctx)
    ELSE IF daysDiff > 0 THEN "in " \o NumToString(daysDiff) \o " days"
    ELSE IF daysDiff < 0 THEN NumToString(0 - daysDiff) \o " days ago"
    ELSE FormatCompact(t)

\* The branches of formatRelative after today and tomorrow, on daysDiff
RelativeOfDays(t, ctx, daysDiff) ==
    IF daysDiff = 0 - 1 THEN "yesterday"
    ELSE IF daysDiff > 0 /\ daysDiff <= 7
    THEN (IF daysDiff <= 6 THEN "this " ELSE "next ")
            \o FormatWeekdayInTimezone(t, ctx)
    ELSE IF daysDiff > 7 /\ daysDiff <= 14
    THEN "next " \o FormatWeekdayInTimezone(t, ctx)
    ELSE IF daysDiff > 0
    THEN IF daysDiff < 30 THEN "in " \o NumToString(daysDiff) \o " days"
         ELSE IF daysDiff < 365
         THEN "in " \o NumToString(RoundDiv(daysDiff, 30)) \o " month"
                \o Plural(RoundDiv(daysDiff, 30))
         ELSE "in " \o NumToString(RoundDiv(daysDiff, 365)) \o " year"
                \o Plural(RoundDiv(daysDiff, 365))
    ELSE IF daysDiff < 0
    THEN IF 0 - daysDiff < 30 THEN NumToString(0 - daysDiff) \o " days ago"
         ELSE IF 0 - daysDiff < 365
         THEN NumToString(RoundDiv(0 - daysDiff, 30)) \o " month"
                \o Plural(RoundDiv(0 - daysDiff, 30)) \o " ago"
         ELSE NumToString(RoundDiv(0 - daysDiff, 365)) \o " year"
                \o Plural(RoundDiv(0 - daysDiff, 365)) \o " ago"
    ELSE FormatCompact(t)

\* DateFormatter.formatRelative
FormatRelative(t, ctx, now) ==
    IF IsToday(t, ctx, now) THEN "today"
    ELSE IF IsTomorrow(t, ctx, now) THEN "tomorrow"
    ELSE RelativeOfDays(t, ctx, GetDaysDifference(t, ctx))

\* formatHybrid appending the date in every case, as formatDateWithOriginal
HybridOfAlwaysAppending(relative, absolute) ==
    relative \o " (" \o absolute \o ")"

\* The return of formatHybrid for the relative and absolute texts
HybridOf(relative, absolute) ==
    IF ToLowerCase(relative) \in {"today", "tomorrow", "yesterday"}
    THEN relative
    ELSE IF Includes(relative, absolute) THEN relative
    ELSE relative \o " (" \o absolute \o ")"

\* DateFormatter.formatHybrid
FormatHybrid(t, ctx, now) ==
    HybridOf(FormatRelative(t, ctx, now), FormatCompact(t))

\* DateFormatter.formatContext(date, {})
FormatContext(t, ctx, now) ==
    (IF IsToday(t, ctx, now) THEN "Today"
     ELSE IF IsTomorrow(t, ctx, now) THEN "Tomorrow"
     ELSE FormatWeekdayInTimezone(t, ctx))
        \o " is " \o FormatHuman(t, ctx)

FormatStyles == {"context", "hybrid", "compact", "human", "iso", "relative"}

\* Whether format(date, style) throws: the first operation of each style on
\* the date
FormatThrows(date, style) ==
    IF style = "context" THEN GetDatePartsThrows(date)
    ELSE IF style = "hybrid" THEN GetDatePartsThrows(date)
    ELSE IF style = "compact" THEN ToISOStringThrows(date)
    ELSE IF style = "human" THEN FormatDateInTimezoneThrows(date)
    ELSE IF style = "iso" THEN ToISOStringThrows(date)
    ELSE IF style = "relative" THEN GetDatePartsThrows(date)
    ELSE FormatDateInTimezoneThrows(date)

\* The string format(date, style) returns for a valid date
FormatValue(t, style, ctx, now) ==
    IF style = "context" THEN FormatContext(t, ctx, now)
    ELSE IF style = "hybrid" THEN FormatHybrid(t, ctx, now)
    ELSE IF style = "compact" THEN FormatCompact(t)
    ELSE IF style = "human" THEN FormatHuman(t, ctx)
    ELSE IF style = "iso" THEN FormatISO(t)
    ELSE IF style = "relative" THEN FormatRelative(t, ctx, now)
    ELSE FormatHuman(t, ctx)

\* DateFormatter.format(date, style) / TimeAI.formatDate(date, style)
Format(date, style, ctx, now) ==
    IF FormatThrows(date, style)
    THEN [threw |-> TRUE, value |-> ""]
    ELSE [threw |-> FALSE, value |-> FormatValue(date.t, style, ctx, now)]

-----------------------------------------------------------------------------
(* TimeAI *)

Strategies == {"preserve", "normalize", "hybrid"}

\* How many elements of a list sorted by descending start do not come after e
CountNotAfter(sorted, e) ==
    Cardinality({i \in 1..Len(sorted) : sorted[i].start >= e.start})

RECURSIVE SortByStartDescending(_)
\* Array.prototype.sort((a, b) => b.start - a.start): stable
SortByStartDescending(a) ==
    IF Len(a) = 0 THEN <<>>
    ELSE LET sorted == SortByStartDescending(SubSeq(a, 1, Len(a) - 1))
             e      == a[Len(a)]
             k      == CountNotAfter(sorted, e)
         IN  SubSeq(sorted, 1, k) \o <<e>> \o SubSeq(sorted, k + 1, Len(sorted))

\* applyStrategy without its sort: the extractions in the order supplied
UnsortedExtractions(extractions) == extractions

\* const sortedExtractions = [...extractions].sort(...)
SortedExtractions(extractions) == SortByStartDescending(extractions)

\* applyStrategy sorting the caller's array in place
SortedInPlace(extractions) == SortByStartDescending(extractions)

\* The caller's array after applyStrategy: the sort works on a copy
ArgumentAfterSort(extractions) == extractions

\* The switch with the break of 'preserve' missing: it falls through to
\* 'normalize'
ReplacementFallThrough(extraction, strategy, ctx) ==
    IF strategy \in {"preserve", "normalize"}
    THEN IF extraction.grain # "day"
         THEN IsoDate(extraction.resolvedDate) \o " "
                  \o FormatTimeInTimezone(extraction.resolvedDate, ctx) \o " "
                  \o ctx.timezone
         ELSE FormatCompact(extraction.resolvedDate)
    ELSE FormatDateWithOriginal(extraction.resolvedDate, extraction.originalText,
                                extraction.grain)

\* The switch with 'normalize' not looking at the grain
ReplacementIgnoringGrain(extraction, strategy, ctx) ==
    IF strategy = "preserve" THEN extraction.originalText
    ELSE IF strategy = "normalize" THEN FormatCompact(extraction.resolvedDate)
    ELSE FormatDateWithOriginal(extraction.resolvedDate, extraction.originalText,
                                extraction.grain)

\* The switch of applyStrategy: the replacement of one extraction
Replacement(extraction, strategy, ctx) ==
    IF strategy = "preserve" THEN extraction.originalText
    ELSE IF strategy = "normalize"
    THEN IF extraction.grain # "day"
         THEN IsoDate(extraction.resolvedDate) \o " "
                  \o FormatTimeInTimezone(extraction.resolvedDate, ctx) \o " "
                  \o ctx.timezone
         ELSE FormatCompact(extraction.resolvedDate)
    ELSE IF strategy = "hybrid"
    THEN FormatDateWithOriginal(extraction.resolvedDate, extraction.originalText,
                                extraction.grain)
    ELSE extraction.originalText

\* result.substring(0, start) + replacement + result.substring(end)
ReplaceSpan(result, start, end, replacement) ==
    Substring(result, 0, start) \o replacement \o SubstringFrom(result, end)

RECURSIVE ReplaceAll(_, _, _, _)
\* The loop of applyStrategy over the sorted extractions
ReplaceAll(result, sorted, strategy, ctx) ==
    IF Len(sorted) = 0 THEN result
    ELSE ReplaceAll(
            ReplaceSpan(result, sorted[1].start, sorted[1].end,
                        Replacement(sorted[1], strategy, ctx)),
            SubSeq(sorted, 2, Len(sorted)), strategy, ctx)

\* TimeAI.applyStrategy
ApplyStrategy(text, extractions, strategy, ctx) ==
    ReplaceAll(text, SortedExtractions(extractions), strategy, ctx)

\* A text argument is [isString, s]; a falsy or non-string one becomes ''
TextOf(arg) == IF arg.isString THEN arg.s ELSE ""

\* TimeAI.enhancePrompt(text, { strategy }): strategyOption is "" when the
\* option is left out; results is the grammar's answer for the text
EnhancePrompt(arg, results, strategyOption, cfg, ctx, now) ==
    LET text     == TextOf(arg)
        strategy == IF strategyOption # "" THEN strategyOption ELSE cfg.strategy
        parsed   == Parse(results,
                          [timezone |-> cfg.timezone, referenceDate |-> now], now)
        extractions  == parsed.value
        enhancedText == IF Len(extractions) > 0
                        THEN ApplyStrategy(text, extractions, strategy, ctx)
                        ELSE text
        header       == IF cfg.includeContext
                        THEN FormatForLLMContext(now, ctx) ELSE ""
        tokensAdded  == (IF cfg.includeContext THEN GetTokenCount(header) ELSE 0)
                            + (GetTokenCount(enhancedText) - GetTokenCount(text))
    IN  IF parsed.threw
        THEN [op |-> "enhancePrompt", threw |-> TRUE]
        ELSE [op |-> "enhancePrompt", threw |-> FALSE,
              originalText |-> text,
              enhancedText |-> enhancedText,
              context      |-> header,
              extractions  |-> IF Len(extractions) > 0
                               THEN ArgumentAfterSort(extractions)
                               ELSE extractions,
              tokensAdded  |-> tokensAdded,
              strategy     |-> strategy]

\* The options parseDate / parseDates hand to the parser:
\* { timezone: config.timezone, referenceDate: now, ...options }
MergedOptions(options, cfg, now) ==
    [timezone      |-> IF options.timezone # "" THEN options.timezone
                       ELSE cfg.timezone,
     referenceDate |-> IF options.referenceDate # Null THEN options.referenceDate
                       ELSE now]

\* TimeAI.parseDates(text, options)
ParseDates(arg, results, options, cfg, now) ==
    IF TextOf(arg) = ""
    THEN [op |-> "parseDates", threw |-> FALSE, extractions |-> <<>>]
    ELSE LET parsed == Parse(results, MergedOptions(options, cfg, now), now)
         IN  [op |-> "parseDates", threw |-> parsed.threw,
              extractions |-> parsed.value]

\* The first element of the parser's answer, kept as a list of at most one
\* extraction; isNull says that parseFirst returned null
FirstOf(parsed) ==
    [op |-> "parseDate", threw |-> parsed.threw,
     isNull |-> Len(parsed.value) = 0,
     extractions |-> IF Len(parsed.value) = 0 THEN <<>>
                     ELSE <<parsed.value[1]>>]

\* TimeAI.parseDate(text, options)
ParseDate(arg, results, options, cfg, now) ==
    IF TextOf(arg) = ""
    THEN [op |-> "parseDate", threw |-> FALSE, isNull |-> TRUE,
          extractions |-> <<>>]
    ELSE FirstOf(Parse(results, MergedOptions(options, cfg, now), now))

\* TimeAI.addContext(prompt)
AddContext(prompt, ctx, now) ==
    FormatForLLMContext(now, ctx) \o "\n\n" \o prompt

\* setTimezone also putting the locale back to the default
TimeAISetTimezoneResettingLocale(cfg, timezone) ==
    [cfg EXCEPT !.timezone = timezone, !.locale = SystemLocale]

\* TimeAI.setTimezone, its assignment: this.config.timezone = timezone
TimeAISetTimezone(cfg, timezone) == [cfg EXCEPT !.timezone = timezone]

\* TimeAI.setLocale, its assignment: this.config.locale = locale
TimeAISetLocale(cfg, locale) == [cfg EXCEPT !.locale = locale]

-----------------------------------------------------------------------------
(* Construction *)

NoResult == [op |-> "none"]

\* new TimeAI(config): config.timezone || defaults.timezone, and so on
TimeAIConfig(timezone, includeContext) ==
    [timezone       |-> IF timezone # "" THEN timezone ELSE SystemTimezone,
     locale         |-> SystemLocale,
     strategy       |-> "hybrid",
     includeContext |-> includeContext]

\* new TimeContextManager(config): identifiers are validated or defaulted
NewContext(cfg, now) ==
    [now      |-> now,
     timezone |-> IF ValidateTimezone(cfg.timezone) # ""
                  THEN ValidateTimezone(cfg.timezone) ELSE SystemTimezone,
     locale   |-> IF ValidateLocale(cfg.locale) # ""
                  THEN ValidateLocale(cfg.locale) ELSE SystemLocale]

\* getContext() returning the stored context, its now the pinned reference
GetContextPinned(ctx, now) == ctx

\* TimeContextManager.getContext(): now is always the current time
GetContext(ctx, now) == [ctx EXCEPT !.now = now]

-----------------------------------------------------------------------------
(* Inputs: texts, and what the grammar may answer for them *)

\* The most raw matches the grammar returns for one text
MaxMatches == 2

Texts == {"Meet tomorrow at 3pm", "Hello world", "9am5pm", "   "}

\* The wall clock at the moment of the call
Clocks == {Instant(2025, 1, 31, 23, 30, 20), Instant(2025, 9, 15, 12, 0, 0)}

\* Whether a match may begin or end between the characters a and b: at a
\* blank, and where a digit follows a letter ("9am5pm")
IsLetter(c) == ~IsSpace(c) /\ ~IsDigit(c)

\* 0-based offsets where a match may start, and end-exclusive ones where it
\* may end
WordStarts(text) ==
    {i \in 0..(Len(text) - 1) :
        /\ ~IsSpace(SubSeq(text, i + 1, i + 1))
        /\ \/ i = 0
           \/ IsSpace(SubSeq(text, i, i))
           \/ IsLetter(SubSeq(text, i, i)) /\ IsDigit(SubSeq(text, i + 1, i + 1))}

WordEnds(text) ==
    {e \in 1..Len(text) :
        /\ ~IsSpace(SubSeq(text, e, e))
        /\ \/ e = Len(text)
           \/ IsSpace(SubSeq(text, e + 1, e + 1))
           \/ IsLetter(SubSeq(text, e, e)) /\ IsDigit(SubSeq(text, e + 1, e + 1))}

\* The spans the grammar may match
Spans(text) ==
    {sp \in WordStarts(text) \X WordEnds(text) : sp[1] < sp[2]}

\* Components of a match that names a day only: the time is implied
DayComponents ==
    [year |-> 2025, month |-> 9, day |-> 16, hour |-> 12, minute |-> 0,
     second |-> 0, certain |-> {"year", "month", "day"}]

\* Components of a match such as "at 3pm": hour and minute are certain
TimeComponents ==
    [year |-> 2025, month |-> 9, day |-> 16, hour |-> 15, minute |-> 0,
     second |-> 0, certain |-> {"day", "hour", "minute"}]

\* Components of a match with a certain second
SecondComponents ==
    [year |-> 2025, month |-> 12, day |-> 31, hour |-> 23, minute |-> 59,
     second |-> 58, certain |-> {"hour", "minute", "second"}]

PipelineComponents == {DayComponents, TimeComponents, SecondComponents}

\* The raw match the grammar reports for a span of the text
RawMatch(text, sp, c) ==
    [index |-> sp[1], text |-> Substring(text, sp[1], sp[2]),
     year |-> c.year, month |-> c.month, day |-> c.day,
     hour |-> c.hour, minute |-> c.minute, second |-> c.second,
     certain |-> c.certain]

\* chronoInstance.parse(text, referenceDate): up to MaxMatches matches, in
\* ascending order, none overlapping an earlier one
GrammarAnswers(text) ==
    UNION {
        {[i \in 1..n |-> RawMatch(text, sps[i], cs[i])] :
            sps \in {f \in [1..n -> Spans(text)] :
                        \A i \in 1..(n - 1) : f[i][2] <= f[i + 1][1]},
            cs \in [1..n -> PipelineComponents]}
        : n \in 0..MaxMatches}

\* The text arguments of a call: strings, and a value that is not a string
TextArguments ==
    {[isString |-> TRUE, s |-> t] : t \in Texts}
        \cup {[isString |-> FALSE, s |-> ""]}

Calls ==
    UNION {
        {[arg |-> a, results |-> r] :
            r \in IF a.isString THEN GrammarAnswers(a.s) ELSE {<<>>}}
        : a \in TextArguments}

\* The per-call options of parseDate / parseDates in this model
ParsingOptions ==
    {[timezone |-> "", referenceDate |-> Null],
     [timezone |-> "Asia/Tokyo", referenceDate |-> Null],
     [timezone |-> "", referenceDate |-> Instant(2024, 2, 28, 20, 30, 15)]}

-----------------------------------------------------------------------------
(* The engine called once on drawn inputs *)

Init ==
    /\ clock \in Clocks
    /\ \E tz \in ValidTimezones, ic \in BOOLEAN :
        /\ config = TimeAIConfig(tz, ic)
        /\ context = NewContext(TimeAIConfig(tz, ic), clock)
    /\ call \in Calls
    /\ out = NoResult

\* timeAI.enhancePrompt(text, { strategy })
DoEnhancePrompt ==
    /\ out = NoResult
    /\ \E strategyOption \in Strategies \cup {""} :
        out' = EnhancePrompt(call.arg, call.results, strategyOption, config,
                             GetContext(context, clock), clock)
    /\ UNCHANGED <<clock, config, context, call>>

\* timeAI.parseDates(text, options)
DoParseDates ==
    /\ out = NoResult
    /\ \E options \in ParsingOptions :
        out' = ParseDates(call.arg, call.results, options, config, clock)
    /\ UNCHANGED <<clock, config, context, call>>

\* applyStrategy called on the extractions of the text in any order
DoApplyStrategy ==
    /\ out = NoResult
    /\ call.arg.isString
    /\ LET parsed == Parse(call.results,
                           [timezone |-> config.timezone,
                            referenceDate |-> clock], clock).value
       IN  /\ Len(parsed) > 0
           /\ \E strategy \in Strategies, p \in Permutations(1..Len(parsed)) :
                LET supplied == [i \in 1..Len(parsed) |-> parsed[p[i]]]
                IN  out' = [op |-> "applyStrategy", threw |-> FALSE,
                            text |-> call.arg.s,
                            extractions |-> supplied,
                            strategy |-> strategy,
                            result |-> ApplyStrategy(call.arg.s, supplied, strategy,
                                                     GetContext(context, clock))]
    /\ UNCHANGED <<clock, config, context, call>>

Next == DoEnhancePrompt \/ DoParseDates \/ DoApplyStrategy

Spec == Init /\ [][Next]_vars

-----------------------------------------------------------------------------
(* The parser called once on one raw match (SpecParser) *)

\* The texts of the raw match
MatchTexts ==
    {"tomorrow", "Yesterday at 3pm", "today", "maybe tomorrow", "around 5",
     "Fri", "ish", "Dec 25 2025", "in 2025", "12/25/2025", "2 hours ago",
     "March 1st", "next March"}

\* A component of a raw match: [value, certain]; a value of Null is a
\* component the grammar left out
HourChoices ==
    {[value |-> Null, certain |-> FALSE], [value |-> 12, certain |-> FALSE],
     [value |-> 15, certain |-> TRUE]}

MinuteChoices ==
    {[value |-> Null, certain |-> FALSE], [value |-> 0, certain |-> FALSE],
     [value |-> 30, certain |-> TRUE]}

SecondChoices ==
    {[value |-> Null, certain |-> FALSE], [value |-> 0, certain |-> FALSE],
     [value |-> 45, certain |-> TRUE]}

YearChoices == {Null, 2024}

MonthDayChoices == {<<2, 29>>, <<2, 30>>, <<12, 31>>}

ParserComponents ==
    {[year |-> y, month |-> md[1], day |-> md[2],
      hour |-> h.value, minute |-> mi.value, second |-> sec.value,
      certain |-> {"month", "day"}
                    \cup (IF h.certain THEN {"hour"} ELSE {})
                    \cup (IF mi.certain THEN {"minute"} ELSE {})
                    \cup (IF sec.certain THEN {"second"} ELSE {})] :
        y \in YearChoices, md \in MonthDayChoices, h \in HourChoices,
        mi \in MinuteChoices, sec \in SecondChoices}

\* Reference instants next to a leap day, a year's end and a month's end
ReferenceDates ==
    {Instant(2024, 2, 28, 20, 30, 15), Instant(2024, 12, 31, 18, 0, 0),
     Instant(2025, 3, 1, 3, 10, 5)}

\* options.timezone and options.referenceDate, each possibly left out
ParserOptions ==
    {[timezone |-> tz, referenceDate |-> r] :
        tz \in {"", "Asia/Tokyo", "America/Phoenix"},
        r \in ReferenceDates \cup {Null}}

ParserCalls ==
    {[arg |-> [isString |-> TRUE, s |-> t],
      results |-> <<RawMatch(t, <<0, Len(t)>>, c)>>,
      options |-> o] :
        t \in MatchTexts, c \in ParserComponents, o \in ParserOptions}

InitParser ==
    /\ clock \in Clocks
    /\ config = TimeAIConfig("", FALSE)
    /\ context = NewContext(TimeAIConfig("", FALSE), clock)
    /\ call \in ParserCalls
    /\ out = NoResult

\* parser.parse(text, options)
DoParse ==
    /\ out = NoResult
    /\ LET parsed == Parse(call.results, call.options, clock)
       IN  out' = [op |-> "parse", threw |-> parsed.threw,
                   extractions |-> parsed.value]
    /\ UNCHANGED <<clock, config, context, call>>

NextParser == DoParse

SpecParser == InitParser /\ [][NextParser]_vars

-----------------------------------------------------------------------------
(* A TimeContextManager with its DateFormatter, called again and again   *)
(* (SpecContext).  call is the last invocation, out what it returned,    *)
(* context the manager's context, clock the wall clock.                  *)

\* An identifier argument is [isString, s]
StringArgument(s) == [isString |-> TRUE, s |-> s]

NonStringArgument == [isString |-> FALSE, s |-> ""]

\* config.timezone / config.locale as validateTimezone / validateLocale see
\* them: "" stands for every value that fails `!x || typeof x !== 'string'`
ArgumentString(arg) == IF arg.isString THEN arg.s ELSE ""

TimezoneArguments ==
    {StringArgument(tz) : tz \in ValidTimezones \cup {"Invalid/Timezone", ""}}
        \cup {NonStringArgument}

LocaleArguments ==
    {StringArgument(l) : l \in ValidLocales \cup {"not_a_locale", ""}}
        \cup {NonStringArgument}

\* The wall-clock times of the model, and the instants updateNow is given
WallClocks == Clocks \cup {Instant(2025, 1, 1, 9, 0, 0)}

PinDates == {Instant(2025, 1, 1, 12, 0, 0)}

\* The instants asked about: around the pinned date, and far from it
QueryDates ==
    {Instant(2025, 1, 1, 13, 0, 0), Instant(2025, 1, 2, 0, 30, 0),
     Instant(2024, 12, 31, 23, 0, 0), Instant(2025, 1, 2, 23, 0, 0),
     Instant(2025, 1, 11, 12, 0, 0), Instant(2024, 11, 20, 6, 0, 0)}

DateArguments == {ValidDate(t) : t \in QueryDates} \cup {InvalidDate}

\* setTimezone with the validation left out
ManagerSetTimezoneUnvalidated(ctx, arg) ==
    [ctx EXCEPT !.timezone = ArgumentString(arg)]

\* TimeContextManager.setTimezone
ManagerSetTimezone(ctx, arg) ==
    IF ValidateTimezone(ArgumentString(arg)) # ""
    THEN [ctx EXCEPT !.timezone = ValidateTimezone(ArgumentString(arg))]
    ELSE ctx

\* TimeContextManager.setLocale
ManagerSetLocale(ctx, arg) ==
    IF ValidateLocale(ArgumentString(arg)) # ""
    THEN [ctx EXCEPT !.locale = ValidateLocale(ArgumentString(arg))]
    ELSE ctx

\* TimeContextManager.updateNow(date?): date is Null when left out
ManagerUpdateNow(ctx, date, now) ==
    [ctx EXCEPT !.now = IF date # Null THEN date ELSE now]

Returns(op, value) == [op |-> op, threw |-> FALSE, value |-> value]

InitContext ==
    /\ clock \in WallClocks
    /\ config = TimeAIConfig("", FALSE)
    /\ \E tz \in TimezoneArguments, l \in LocaleArguments :
        /\ call = [op |-> "constructor", timezone |-> tz, locale |-> l]
        /\ context = NewContext([timezone |-> ArgumentString(tz),
                                 locale |-> ArgumentString(l)], clock)
    /\ out = NoResult

\* Time passes
Tick ==
    /\ \E later \in WallClocks : later > clock /\ clock' = later
    /\ UNCHANGED <<config, context, call, out>>

\* new TimeContextManager(config)
CallConstructor ==
    /\ \E tz \in TimezoneArguments, l \in LocaleArguments :
        /\ call' = [op |-> "constructor", timezone |-> tz, locale |-> l]
        /\ context' = NewContext([timezone |-> ArgumentString(tz),
                                  locale |-> ArgumentString(l)], clock)
    /\ out' = NoResult
    /\ UNCHANGED <<clock, config>>

\* manager.setTimezone(timezone)
CallSetTimezone ==
    /\ \E arg \in TimezoneArguments :
        /\ call' = [op |-> "setTimezone", arg |-> arg]
        /\ context' = ManagerSetTimezone(context, arg)
    /\ out' = NoResult
    /\ UNCHANGED <<clock, config>>

\* manager.setLocale(locale)
CallSetLocale ==
    /\ \E arg \in LocaleArguments :
        /\ call' = [op |-> "setLocale", arg |-> arg]
        /\ context' = ManagerSetLocale(context, arg)
    /\ out' = NoResult
    /\ UNCHANGED <<clock, config>>

\* manager.updateNow(date) and manager.updateNow()
CallUpdateNow ==
    /\ \E date \in PinDates \cup {Null} :
        /\ call' = [op |-> "updateNow", date |-> date]
        /\ context' = ManagerUpdateNow(context, date, clock)
    /\ out' = NoResult
    /\ UNCHANGED <<clock, config>>

\* manager.getContext()
CallGetContext ==
    /\ call' = [op |-> "getContext"]
    /\ out' = Returns("getContext", GetContext(context, clock))
    /\ UNCHANGED <<clock, config, context>>

\* manager.isToday(date)
CallIsToday ==
    /\ \E t \in QueryDates :
        /\ call' = [op |-> "isToday", date |-> t]
        /\ out' = Returns("isToday", IsToday(t, context, clock))
    /\ UNCHANGED <<clock, config, context>>

\* manager.isTomorrow(date)
CallIsTomorrow ==
    /\ \E t \in QueryDates :
        /\ call' = [op |-> "isTomorrow", date |-> t]
        /\ out' = Returns("isTomorrow", IsTomorrow(t, context, clock))
    /\ UNCHANGED <<clock, config, context>>

\* manager.getDaysDifference(date)
CallGetDaysDifference ==
    /\ \E t \in QueryDates :
        /\ call' = [op |-> "getDaysDifference", date |-> t]
        /\ out' = Returns("getDaysDifference", GetDaysDifference(t, context))
    /\ UNCHANGED <<clock, config, context>>

\* formatter.format(date, style), style possibly unrecognised
CallFormat ==
    /\ \E date \in DateArguments, style \in FormatStyles \cup {"fancy"} :
        /\ call' = [op |-> "format", date |-> date, style |-> style]
        /\ out' = [op |-> "format"] @@ Format(date, style, context, clock)
    /\ UNCHANGED <<clock, config, context>>

NextContext ==
    \/ Tick
    \/ CallConstructor
    \/ CallSetTimezone
    \/ CallSetLocale
    \/ CallUpdateNow
    \/ CallGetContext
    \/ CallIsToday
    \/ CallIsTomorrow
    \/ CallGetDaysDifference
    \/ CallFormat

SpecContext == InitContext /\ [][NextContext]_vars

-----------------------------------------------------------------------------
(* A DateFormatter asked for the relative and the hybrid style of dates   *)
(* near to and far from the reference of its manager (SpecRelative).      *)
(* call is the last invocation (at the wall-clock time of the call) and   *)
(* out what it returned.                                                  *)

\* The day differences of the dates asked about: the ends of every range of
\* formatRelative and the places where Math.round changes
RelativeDayOffsets ==
    {0 - 800, 0 - 548, 0 - 547, 0 - 365, 0 - 364, 0 - 45, 0 - 44, 0 - 30,
     0 - 29, 0 - 2, 0 - 1, 0, 1, 2, 6, 7, 8, 14, 15, 29, 30, 44, 45, 364, 365,
     547, 548, 800}

\* How far before the end of its day difference a date lies, in seconds
RelativeDayParts == {0, 43200}

RelativeStyles == {"relative", "hybrid"}

InitRelative ==
    /\ clock \in WallClocks
    /\ config = TimeAIConfig("", FALSE)
    /\ \E tz \in ValidTimezones :
        /\ call = [op |-> "constructor", timezone |-> tz]
        /\ context = NewContext([timezone |-> tz, locale |-> SystemLocale],
                                clock)
    /\ out = NoResult

\* Time passes
RelativeTick ==
    /\ \E later \in WallClocks : later > clock /\ clock' = later
    /\ UNCHANGED <<config, context, call, out>>

\* contextManager.updateNow(date) / updateNow()
RelativeUpdateNow ==
    /\ \E date \in PinDates \cup {Null} :
        /\ call' = [op |-> "updateNow", date |-> date]
        /\ context' = ManagerUpdateNow(context, date, clock)
    /\ out' = NoResult
    /\ UNCHANGED <<clock, config>>

\* formatter.format(date, 'relative' | 'hybrid') for a date days days (less
\* part seconds) after the reference
RelativeFormat ==
    /\ \E days \in RelativeDayOffsets, part \in RelativeDayParts,
          style \in RelativeStyles :
        /\ call' = [op |-> "format", style |-> style, at |-> clock,
                    date |-> ValidDate(context.now + days * SecondsPerDay
                                        - part)]
        /\ out' = [op |-> "format"]
                    @@ Format(ValidDate(context.now + days * SecondsPerDay
                                        - part),
                              style, context, clock)
    /\ UNCHANGED <<clock, config, context>>

NextRelative ==
    \/ RelativeTick
    \/ RelativeUpdateNow
    \/ RelativeFormat

SpecRelative == InitRelative /\ [][NextRelative]_vars

-----------------------------------------------------------------------------
(* The parser called on a text one of the custom rules matches            *)
(* (SpecRules).  call is the invocation, out the components the rule      *)
(* returned and the extraction made of them.                              *)

\* Reference dates: every day of a week, the ends of months, quarters and
\* years, February in a leap year and in a common year; early and late in
\* the day
RuleReferenceDays ==
    {<<2025, 1, 3>>, <<2025, 1, 4>>, <<2025, 1, 5>>, <<2025, 1, 6>>,
     <<2025, 1, 7>>, <<2025, 1, 8>>, <<2025, 1, 9>>, <<2025, 1, 31>>,
     <<2025, 2, 10>>, <<2024, 2, 10>>, <<2024, 2, 29>>, <<2025, 3, 31>>,
     <<2025, 4, 30>>, <<2025, 5, 31>>, <<2025, 8, 20>>, <<2025, 10, 1>>,
     <<2025, 11, 30>>, <<2025, 12, 31>>, <<2026, 1, 1>>}

RuleReferenceDates ==
    {Instant(d[1], d[2], d[3], h, 30, 0) : d \in RuleReferenceDays, h \in {2, 21}}

BusinessDayWords == {"next", "this"}

BusinessDayNouns == {"business day", "workday", "weekday"}

Periods == {"week", "month", "quarter", "year"}

\* The match of a rule that returned components c for the whole text: the
\* date is known, the time implied
RuleMatch(text, c) ==
    RawMatch(text, <<0, Len(text)>>,
             [year |-> c.year, month |-> c.month, day |-> c.day,
              hour |-> 12, minute |-> 0, second |-> 0,
              certain |-> {"year", "month", "day"}])

\* parser.parseFirst(text, { timezone, referenceDate }) for such a match
RuleExtraction(text, c, timezone, referenceDate, now) ==
    Parse(<<RuleMatch(text, c)>>,
          [timezone |-> timezone, referenceDate |-> referenceDate],
          now).value[1]

\* A parser used with the timezone of config; the reference date of a call
\* is the wall clock
InitRules ==
    /\ clock \in RuleReferenceDates
    /\ \E tz \in ValidTimezones :
        /\ config = TimeAIConfig(tz, FALSE)
        /\ context = NewContext(TimeAIConfig(tz, FALSE), clock)
    /\ call = [op |-> "constructor"]
    /\ out = NoResult

\* 'next business day', 'this weekday', ...
ParseBusinessDay ==
    /\ \E word \in BusinessDayWords, noun \in BusinessDayNouns :
        /\ call' = [op |-> "businessDay", word |-> word,
                    text |-> word \o " " \o noun,
                    referenceDate |-> clock, timezone |-> config.timezone]
        /\ out' = [components |->
                        RuleComponents(BusinessDayTarget(
                            word = "next", SystemDay(clock))),
                   extraction |->
                        RuleExtraction(
                            word \o " " \o noun,
                            RuleComponents(BusinessDayTarget(
                                word = "next", SystemDay(clock))),
                            config.timezone, clock, clock)]
    /\ UNCHANGED <<clock, config, context>>

\* 'end of week', 'end of this month', ...
ParseEndOfPeriod ==
    /\ \E period \in Periods, this \in {"", "this "} :
        /\ call' = [op |-> "endOfPeriod", period |-> period,
                    text |-> "end of " \o this \o period,
                    referenceDate |-> clock, timezone |-> config.timezone]
        /\ out' = [components |->
                        RuleComponents(EndOfPeriodTarget(
                            period, SystemDay(clock))),
                   extraction |->
                        RuleExtraction(
                            "end of " \o this \o period,
                            RuleComponents(EndOfPeriodTarget(
                                period, SystemDay(clock))),
                            config.timezone, clock, clock)]
    /\ UNCHANGED <<clock, config, context>>

NextRules ==
    \/ ParseBusinessDay
    \/ ParseEndOfPeriod

SpecRules == InitRules /\ [][NextRules]_vars

-----------------------------------------------------------------------------
(* One TimeAI instance, the shared default instance of the convenience  *)
(* functions, called again and again (SpecEngine).  call is the last    *)
(* invocation and out what it returned.                                 *)

EngineText == "Meet tomorrow at 3pm"

\* Texts and what the grammar answers for them: one match with a time, one
\* match of a day, and nothing for texts without a temporal expression, for
\* whitespace, for the empty string and for an argument that is no string
EngineInputs ==
    {[arg |-> StringArgument(EngineText),
      results |-> <<RawMatch(EngineText, <<5, 20>>, TimeComponents)>>],
     [arg |-> StringArgument(EngineText),
      results |-> <<RawMatch(EngineText, <<5, 13>>, DayComponents)>>],
     [arg |-> StringArgument("Hello world"), results |-> <<>>],
     [arg |-> StringArgument("   "), results |-> <<>>],
     [arg |-> StringArgument(""), results |-> <<>>],
     [arg |-> NonStringArgument, results |-> <<>>]}

\* The timezones and locales given to the constructor and to the setters
EngineTimezones == {"Asia/Tokyo", "Invalid/Timezone", ""}

EngineLocales == {"en", "not_a_locale"}

EngineStrategyOptions == {"", "preserve", "normalize"}

\* The config argument of a convenience function; given is FALSE when it is
\* left out
ConvenienceConfigs ==
    {[given |-> FALSE, timezone |-> "", includeContext |-> TRUE],
     [given |-> TRUE, timezone |-> "America/Phoenix", includeContext |-> TRUE]}

\* The per-call options of parseDate / parseDates in this specification
EngineParsingOptions ==
    {[timezone |-> "", referenceDate |-> Null],
     [timezone |-> "America/Phoenix", referenceDate |-> Null]}

InitEngine ==
    /\ clock \in Clocks
    /\ \E tz \in EngineTimezones, ic \in BOOLEAN :
        /\ config = TimeAIConfig(tz, ic)
        /\ context = NewContext(TimeAIConfig(tz, ic), clock)
        /\ call = [op |-> "constructor", timezone |-> tz]
    /\ out = NoResult

\* timeAI.setTimezone(timezone)
EngineSetTimezone ==
    /\ \E tz \in EngineTimezones :
        /\ call' = [op |-> "setTimezone", arg |-> tz]
        /\ config' = TimeAISetTimezone(config, tz)
        /\ context' = ManagerSetTimezone(context, StringArgument(tz))
    /\ out' = NoResult
    /\ UNCHANGED clock

\* timeAI.setLocale(locale)
EngineSetLocale ==
    /\ \E l \in EngineLocales :
        /\ call' = [op |-> "setLocale", arg |-> l]
        /\ config' = TimeAISetLocale(config, l)
        /\ context' = ManagerSetLocale(context, StringArgument(l))
    /\ out' = NoResult
    /\ UNCHANGED clock

\* timeAI.enhancePrompt(text, { strategy })
EngineEnhancePrompt ==
    /\ \E input \in EngineInputs, strategyOption \in EngineStrategyOptions :
        /\ call' = [op |-> "enhancePrompt", arg |-> input.arg,
                    results |-> input.results, strategy |-> strategyOption]
        /\ out' = EnhancePrompt(input.arg, input.results, strategyOption,
                                config, GetContext(context, clock), clock)
    /\ UNCHANGED <<clock, config, context>>

\* timeAI.parseDates(text, options)
EngineParseDates ==
    /\ \E input \in EngineInputs, options \in EngineParsingOptions :
        /\ call' = [op |-> "parseDates", arg |-> input.arg,
                    results |-> input.results, options |-> options]
        /\ out' = ParseDates(input.arg, input.results, options, config, clock)
    /\ UNCHANGED <<clock, config, context>>

\* timeAI.parseDate(text, options)
EngineParseDate ==
    /\ \E input \in EngineInputs, options \in EngineParsingOptions :
        /\ call' = [op |-> "parseDate", arg |-> input.arg,
                    results |-> input.results, options |-> options]
        /\ out' = ParseDate(input.arg, input.results, options, config, clock)
    /\ UNCHANGED <<clock, config, context>>

\* timeAI.formatDate(date, style)
EngineFormatDate ==
    /\ \E date \in {ValidDate(Instant(2025, 1, 1, 13, 0, 0)), InvalidDate},
          style \in {"compact", "human"} :
        /\ call' = [op |-> "formatDate", date |-> date, style |-> style]
        /\ out' = [op |-> "formatDate"] @@ Format(date, style, context, clock)
    /\ UNCHANGED <<clock, config, context>>

\* timeAI.addContext(prompt)
EngineAddContext ==
    /\ call' = [op |-> "addContext", arg |-> StringArgument("Hello world")]
    /\ out' = Returns("addContext",
                      AddContext("Hello world", GetContext(context, clock), clock))
    /\ UNCHANGED <<clock, config, context>>

\* The convenience function enhancePrompt(text, config): a fresh instance
\* when a config is given, the shared instance otherwise
ConvenienceEnhancePrompt ==
    /\ \E input \in EngineInputs, cfg \in ConvenienceConfigs :
        /\ call' = [op |-> "convenienceEnhancePrompt", arg |-> input.arg,
                    results |-> input.results, config |-> cfg]
        /\ out' = IF cfg.given
                  THEN EnhancePrompt(
                            input.arg, input.results, "",
                            TimeAIConfig(cfg.timezone, cfg.includeContext),
                            NewContext(TimeAIConfig(cfg.timezone,
                                                    cfg.includeContext), clock),
                            clock)
                  ELSE EnhancePrompt(input.arg, input.results, "", config,
                                     GetContext(context, clock), clock)
    /\ UNCHANGED <<clock, config, context>>

NextEngine ==
    \/ EngineSetTimezone
    \/ EngineSetLocale
    \/ EngineEnhancePrompt
    \/ EngineParseDates
    \/ EngineParseDate
    \/ EngineFormatDate
    \/ EngineAddContext
    \/ ConvenienceEnhancePrompt

SpecEngine == InitEngine /\ [][NextEngine]_vars

-----------------------------------------------------------------------------
(* Several tasks sharing one TimeAI instance (SpecTasks).  Task i calls   *)
(* setTimezone(tz) and then enhancePrompt(`Task i due tomorrow`).  The    *)
(* two calls are two steps, so that the calls of the tasks may interleave *)
(* in every order; a callback that runs to completion is the behaviour    *)
(* in which the two steps of a task follow each other.  call[i] is the    *)
(* position of task i and out[i] what its enhancePrompt returned.         *)

\* The number of tasks
MaxTasks == 3

Tasks == 0..(MaxTasks - 1)

\* The two timezones the tasks set in turn
TaskTimezone(i) == IF i % 2 = 0 THEN "Asia/Tokyo" ELSE "America/Phoenix"

TaskTimezones == {TaskTimezone(i) : i \in Tasks}

TaskText(i) == "Task " \o NumToString(i) \o " due tomorrow"

\* What the grammar answers for the text of task i: the one match 'tomorrow'
TaskResults(i) ==
    <<RawMatch(TaskText(i), <<Len(TaskText(i)) - 8, Len(TaskText(i))>>,
               DayComponents)>>

\* const timeAI = new TimeAI(); no task has started
InitTasks ==
    /\ clock \in Clocks
    /\ config = TimeAIConfig("", TRUE)
    /\ context = NewContext(TimeAIConfig("", TRUE), clock)
    /\ call = [i \in Tasks |-> "start"]
    /\ out = [i \in Tasks |-> NoResult]

\* Time passes between two calls
TaskTick ==
    /\ \E later \in Clocks : later > clock /\ clock' = later
    /\ UNCHANGED <<config, context, call, out>>

\* Task i: timeAI.setTimezone(...)
TaskSetTimezone ==
    \E i \in Tasks :
        /\ call[i] = "start"
        /\ config' = TimeAISetTimezone(config, TaskTimezone(i))
        /\ context' = ManagerSetTimezone(context,
                                         StringArgument(TaskTimezone(i)))
        /\ call' = [call EXCEPT ![i] = "set"]
        /\ UNCHANGED <<clock, out>>

\* Task i: return timeAI.enhancePrompt(`Task ${i} due tomorrow`)
TaskEnhancePrompt ==
    \E i \in Tasks :
        /\ call[i] = "set"
        /\ out' = [out EXCEPT ![i] =
                        EnhancePrompt(StringArgument(TaskText(i)),
                                      TaskResults(i), "", config,
                                      GetContext(context, clock), clock)]
        /\ call' = [call EXCEPT ![i] = "done"]
        /\ UNCHANGED <<clock, config, context>>

NextTasks ==
    \/ TaskTick
    \/ TaskSetTimezone
    \/ TaskEnhancePrompt

SpecTasks == InitTasks /\ [][NextTasks]_vars

-----------------------------------------------------------------------------
(* Properties of the substitution (Spec) *)

\* The extractions of a list in ascending order of start (starts differ)
AscendingByStart(es) ==
    [i \in 1..Len(es) |->
        CHOOSE e \in {es[k] : k \in 1..Len(es)} :
            Cardinality({k \in 1..Len(es) : es[k].start < e.start}) = i - 1]

RECURSIVE RewriteFrom(_, _, _, _)
\* text from offset pos on, with the span of each extraction of asc (ascending)
\* replaced by the string of the same index in repl, left to right
RewriteFrom(text, pos, asc, repl) ==
    IF Len(asc) = 0 THEN SubstringFrom(text, pos)
    ELSE Substring(text, pos, asc[1].start) \o repl[1]
            \o RewriteFrom(text, asc[1].end, SubSeq(asc, 2, Len(asc)),
                           SubSeq(repl, 2, Len(repl)))

Returned == out.op \in {"enhancePrompt", "parseDates"} /\ ~out.threw

Enhanced == out.op = "enhancePrompt" /\ ~out.threw

Applied == out.op = "applyStrategy"

CallContext == GetContext(context, clock)

\* C1: applyStrategy returns the text with every span replaced by the
\* replacement of its extraction and everything outside the spans kept, in
\* whatever order the extractions are supplied.
C1_ApplyStrategyRewrites ==
    Applied =>
        LET asc == AscendingByStart(out.extractions)
        IN  out.result =
                RewriteFrom(out.text, 0, asc,
                    [i \in 1..Len(asc) |->
                        Replacement(asc[i], out.strategy, CallContext)])

\* C1 witness: two extractions supplied left to right, the right one with a
\* replacement longer and the left one with a replacement shorter than its span
C1_Witness ==
    /\ Applied
    /\ Len(out.extractions) = 2
    /\ out.extractions[1].start < out.extractions[2].start
    /\ out.strategy = "normalize"
    /\ Len(Replacement(out.extractions[2], out.strategy, CallContext))
            > out.extractions[2].end - out.extractions[2].start
    /\ Len(Replacement(out.extractions[1], out.strategy, CallContext))
            < out.extractions[1].end - out.extractions[1].start
    /\ out.result # out.text

\* C2: every extraction returned for a text lies in the text, spans its own
\* original text, and the extractions come one per raw match in ascending
\* order of start, also from enhancePrompt after its substitution.
C2_ExtractionOffsets ==
    Returned =>
        LET t  == TextOf(call.arg)
            es == out.extractions
        IN  /\ Len(es) = Len(call.results)
            /\ \A i \in 1..Len(es) :
                /\ 0 <= es[i].start
                /\ es[i].start < es[i].end
                /\ es[i].end <= Len(t)
                /\ es[i].end = es[i].start + Len(es[i].originalText)
                /\ Substring(t, es[i].start, es[i].end) = es[i].originalText
                /\ es[i].start = call.results[i].index
            /\ \A i \in 1..(Len(es) - 1) : es[i].start < es[i + 1].start

\* C2 witness: enhancePrompt returned two extractions and changed the text
C2_Witness ==
    /\ Enhanced
    /\ Len(out.extractions) = 2
    /\ out.enhancedText # out.originalText

\* C3: with 'preserve' the text comes back unchanged, whatever the grains.
C3_PreserveIsIdentity ==
    /\ (Enhanced /\ out.strategy = "preserve" /\ Len(out.extractions) > 0)
            => out.enhancedText = TextOf(call.arg)
    /\ (Applied /\ out.strategy = "preserve") => out.result = out.text

\* C3 witness: 'preserve' over two extractions, one of them finer than a day
C3_Witness ==
    /\ Enhanced
    /\ out.strategy = "preserve"
    /\ Len(out.extractions) = 2
    /\ \E i \in 1..2 : out.extractions[i].grain # "day"
    /\ out.enhancedText = "Meet tomorrow at 3pm"

\* YYYY-MM-DD of the instant's UTC calendar date
CompactDateOf(date) ==
    LET c == CivilFromDays(date \div SecondsPerDay)
    IN  Pad4(c.year) \o "-" \o Pad2(c.month) \o "-" \o Pad2(c.day)

\* h:mm AM/PM of the instant on the 12-hour clock of timezone tz
ClockTimeOf(date, tz) ==
    LET r  == (date + UtcOffset(tz)) % SecondsPerDay
        hh == r \div 3600
        h  == IF hh % 12 = 0 THEN 12 ELSE hh % 12
    IN  NumToString(h) \o ":" \o Pad2((r % 3600) \div 60) \o " "
            \o (IF hh >= 12 THEN "PM" ELSE "AM")

\* The replacement C4 states for 'normalize'
NormalizedForm(e, tz) ==
    IF e.grain = "day" THEN CompactDateOf(e.resolvedDate)
    ELSE CompactDateOf(e.resolvedDate) \o " " \o ClockTimeOf(e.resolvedDate, tz)
            \o " " \o tz

ReplacementStart(es, lens, i) ==
    LET RECURSIVE Shift(_)
        Shift(k) == IF k = 0 THEN 0
                    ELSE Shift(k - 1) + lens[k] - (es[k].end - es[k].start)
    IN  es[i].start + Shift(i - 1)

\* C5: with 'hybrid' every extraction is replaced by its original text and a
\* parenthesised form that starts with the compact date; never omitted.
C5_HybridAlwaysAnnotates ==
    (Enhanced /\ out.strategy = "hybrid") =>
        LET es   == out.extractions
            lens == [i \in 1..Len(es) |->
                        Len(Replacement(es[i], "hybrid", CallContext))]
        IN  \A i \in 1..Len(es) :
                LET from == ReplacementStart(es, lens, i)
                    head == es[i].originalText \o " ("
                                \o CompactDateOf(es[i].resolvedDate)
                IN  /\ lens[i] > Len(head)
                    /\ Substring(out.enhancedText, from, from + Len(head)) = head
                    /\ Substring(out.enhancedText, from + lens[i] - 1,
                                 from + lens[i]) = ")"

\* C5 witness: the extraction "tomorrow" annotated under 'hybrid'
C5_Witness ==
    /\ Enhanced
    /\ out.strategy = "hybrid"
    /\ \E i \in 1..Len(out.extractions) :
        out.extractions[i].originalText = "tomorrow"
    /\ Includes(out.enhancedText, "tomorrow (20")

\* The replacement C6 states for 'hybrid'
HybridForm(e, tz) ==
    e.originalText \o " (" \o NormalizedForm(e, tz) \o ")"

\* C6: with 'hybrid' the annotation is (YYYY-MM-DD) for a day-grain
\* extraction and (YYYY-MM-DD h:mm AM/PM timezone) for a finer one.
C6_HybridAnnotationByGrain ==
    (Enhanced /\ out.strategy = "hybrid") =>
        out.enhancedText =
            RewriteFrom(out.originalText, 0, out.extractions,
                [i \in 1..Len(out.extractions) |->
                    HybridForm(out.extractions[i], context.timezone)])

-----------------------------------------------------------------------------
(* Properties of the parser (SpecParser) *)

Parsed == out.op = "parse" /\ ~out.threw

\* The raw match of the call and the extraction made of it
TheMatch == call.results[1]

TheExtraction == out.extractions[1]

\* The timezone and the reference instant the call resolves against
TargetTimezone == IF call.options.timezone # "" THEN call.options.timezone ELSE "UTC"

ReferenceInstant ==
    IF call.options.referenceDate # Null THEN call.options.referenceDate ELSE clock

CertainTimeComponents == TheMatch.certain \cap {"hour", "minute", "second"}

\* C7: the grain is the most precise time component the grammar marked
\* certain, and day when it marked none, whatever values it filled in.
C7_GrainIsMostPreciseCertain ==
    Parsed =>
        /\ ("second" \in TheMatch.certain) => TheExtraction.grain = "second"
        /\ ("second" \notin TheMatch.certain /\ "minute" \in TheMatch.certain)
                => TheExtraction.grain = "minute"
        /\ (CertainTimeComponents = {"hour"}) => TheExtraction.grain = "hour"
        /\ (CertainTimeComponents = {}) => TheExtraction.grain = "day"

\* C7 witness: hour, minute and second have values, none of them certain
C7_Witness ==
    /\ Parsed
    /\ TheMatch.hour = 12 /\ TheMatch.minute = 0 /\ TheMatch.second = 0
    /\ CertainTimeComponents = {}
    /\ TheExtraction.grain = "day"

\* Seconds since local midnight of instant t in timezone tz
TimeOfDayIn(t, tz) == (t + UtcOffset(tz)) % SecondsPerDay

\* Whether a match text holds today, tomorrow or yesterday, read off the texts
RelativeDayTexts == {"tomorrow", "Yesterday at 3pm", "today", "maybe tomorrow"}

LocalDayIn(t, tz) == (t + UtcOffset(tz)) \div SecondsPerDay

\* The day shift a match text asks for, read off the texts
DayShiftOf(text) ==
    IF text \in {"tomorrow", "maybe tomorrow"} THEN 1
    ELSE IF text = "Yesterday at 3pm" THEN 0 - 1
    ELSE 0

AmbiguousTexts == {"maybe tomorrow", "around 5", "ish"}

ShortTexts == {"Fri", "ish"}

ClearTexts == {"tomorrow", "Yesterday at 3pm", "today", "maybe tomorrow"}

\* The score C10 states, in hundredths, before clamping
StatedScore ==
    70 + (IF TheMatch.hour # Null THEN 15 ELSE 0)
       + (IF TheMatch.minute # Null THEN 10 ELSE 0)
       + (IF TheMatch.year # Null THEN 10 ELSE 0)
       - (IF TheMatch.text \in AmbiguousTexts THEN 40 ELSE 0)
       - (IF TheMatch.text \in ShortTexts THEN 30 ELSE 0)
       + (IF TheMatch.text \in ClearTexts THEN 20 ELSE 0)

\* C10: the confidence is the stated score clamped to [0, 1].
C10_ConfidenceFormula ==
    Parsed =>
        /\ TheExtraction.confidence >= 0
        /\ TheExtraction.confidence <= 100
        /\ TheExtraction.confidence =
                (IF StatedScore > 100 THEN 100
                 ELSE IF StatedScore < 0 THEN 0 ELSE StatedScore)

\* C10 witness: a score of 1.25 clamped to 1
C10_Witness ==
    /\ Parsed
    /\ StatedScore = 125
    /\ TheExtraction.confidence = 100

\* What the match texts hold, read off the texts: a strong relative marker, an
\* absolute pattern (a 4-digit number, MM/DD/YYYY, a month name or its
\* abbreviation), a broader relative keyword
StrongMarkerTexts ==
    {"tomorrow", "Yesterday at 3pm", "today", "maybe tomorrow", "next March"}

AbsolutePatternTexts ==
    {"Dec 25 2025", "in 2025", "12/25/2025", "March 1st", "next March",
     "maybe tomorrow"}

BroaderKeywordTexts ==
    StrongMarkerTexts \cup {"in 2025", "2 hours ago"}

\* The type C11 states for the text of the match
StatedType ==
    IF TheMatch.text \in StrongMarkerTexts THEN "relative"
    ELSE IF /\ TheMatch.text \in AbsolutePatternTexts
            /\ TheMatch.text \notin BroaderKeywordTexts
         THEN "absolute"
    ELSE IF TheMatch.text \in BroaderKeywordTexts THEN "relative"
    ELSE "absolute"

\* C11: the type is relative for a strong relative marker, else absolute for
\* an absolute pattern without a broader relative keyword, else relative with
\* a broader keyword and absolute without one.
C11_TypeDecisionOrder ==
    Parsed => TheExtraction.type = StatedType

\* C11 witness: a 4-digit year after the keyword "in" is relative
C11_Witness ==
    /\ Parsed
    /\ TheMatch.text = "in 2025"
    /\ TheExtraction.type = "relative"

-----------------------------------------------------------------------------
(* Properties of the context manager (SpecContext) *)

\* An identifier argument that validateTimezone / validateLocale accepts
AcceptedTimezone(arg) == arg.isString /\ arg.s \in ValidTimezones

AcceptedLocale(arg) == arg.isString /\ arg.s \in ValidLocales

\* C13: a setter given an invalid, empty or non-string identifier leaves the
\* timezone and the locale as they were, a constructor given one falls back to
\* the system default, and the timezone getContext() reports is always valid.
C13_InvalidIdentifiersIgnored ==
    /\ [](/\ context.timezone \in ValidTimezones
          /\ context.locale \in ValidLocales
          /\ (out.op = "getContext" => out.value.timezone \in ValidTimezones)
          /\ (call.op = "constructor" =>
                /\ context.timezone = (IF AcceptedTimezone(call.timezone)
                                       THEN call.timezone.s ELSE SystemTimezone)
                /\ context.locale = (IF AcceptedLocale(call.locale)
                                     THEN call.locale.s ELSE SystemLocale)))
    /\ [][/\ (call'.op = "setTimezone" /\ ~AcceptedTimezone(call'.arg))
                => context' = context
          /\ (call'.op = "setLocale" /\ ~AcceptedLocale(call'.arg))
                => context' = context]_vars

\* C13 witness: an invalid timezone was given and Asia/Tokyo is still in place
C13_Witness ==
    /\ call.op = "setTimezone"
    /\ call.arg = StringArgument("Invalid/Timezone")
    /\ context.timezone = "Asia/Tokyo"
    /\ context.locale = "en"

\* C15: format with a Date whose time value is NaN throws for every style,
\* the unrecognised one included.
C15_InvalidDateThrows ==
    (call.op = "format" /\ ~call.date.valid) => out.threw

\* C15 witness: the unrecognised style, which falls back to human, has thrown
C15_Witness ==
    /\ call.op = "format"
    /\ call.date = InvalidDate
    /\ call.style = "fancy"
    /\ out.threw

\* C16: getContext().now is the wall clock of the call; the pinned reference
\* is the creation time after construction and changes only by updateNow, to
\* the instant given or to the wall clock.
C16_NowIsClockPinnedIsKept ==
    /\ context.now = clock
    /\ [][/\ (call'.op = "getContext" /\ clock' = clock)
                => out'.value.now = clock
          /\ (call'.op = "constructor" /\ clock' = clock)
                => context'.now = clock
          /\ (call'.op = "updateNow" /\ clock' = clock)
                => context'.now = (IF call'.date # Null THEN call'.date
                                   ELSE clock)
          /\ (call'.op \notin {"constructor", "updateNow"})
                => context'.now = context.now]_vars

\* C16 witness: getContext() has returned the wall clock while another
\* instant is pinned
C16_Witness ==
    /\ call.op = "getContext"
    /\ context.now \in PinDates
    /\ out.value.now = clock
    /\ out.value.now # context.now

\* C19: with a reference pinned by updateNow(d), isToday, isTomorrow,
\* getDaysDifference and the relative and hybrid styles give what they give
\* when the wall clock reads d: the wall clock has no influence.
C19_PinnedReferenceDecides ==
    (context.now \in PinDates) =>
        /\ (call.op = "isToday")
                => out.value = IsToday(call.date, context, context.now)
        /\ (call.op = "isTomorrow")
                => out.value = IsTomorrow(call.date, context, context.now)
        /\ (call.op = "getDaysDifference")
                => out.value = GetDaysDifference(call.date, context)
        /\ (/\ call.op = "format"
            /\ call.date.valid
            /\ call.style \in {"relative", "hybrid"})
                => out.value = FormatValue(call.date.t, call.style, context,
                                          context.now)

\* The local day number of an instant in a timezone
CalendarDay(t, tz) == (t + UtcOffset(tz)) \div SecondsPerDay

\* C20: getDaysDifference(x) is the number of calendar days, in the
\* configured timezone, from the pinned reference's date to x's date.
C20_DaysDifferenceIsCalendarDays ==
    (call.op = "getDaysDifference") =>
        out.value = CalendarDay(call.date, context.timezone)
                        - CalendarDay(context.now, context.timezone)

-----------------------------------------------------------------------------
(* Properties of the engine (SpecEngine) *)

EnhanceCalls == {"enhancePrompt", "convenienceEnhancePrompt"}

\* C12: when the grammar finds no temporal expression (plain text, blanks,
\* the empty string, an argument that is no string) parseDates returns an empty
\* list, parseDate returns null and enhancePrompt returns no extractions and
\* the original text, under every strategy and without raising.
C12_NothingFoundIsNoError ==
    (call.op \in EnhanceCalls \cup {"parseDates", "parseDate"}
        /\ call.results = <<>>) =>
        /\ ~out.threw
        /\ out.extractions = <<>>
        /\ (call.op = "parseDate") => out.isNull
        /\ (call.op \in EnhanceCalls) =>
                /\ out.originalText = ArgumentString(call.arg)
                /\ out.enhancedText = out.originalText

\* C12 witness: blanks were enhanced under 'normalize' by an instance whose
\* configured timezone is invalid
C12_Witness ==
    /\ call.op = "enhancePrompt"
    /\ call.arg = StringArgument("   ")
    /\ call.strategy = "normalize"
    /\ config.timezone = "Invalid/Timezone"
    /\ ~out.threw
    /\ out.enhancedText = "   "

\* C14: enhancePrompt and parseDates (without a per-call timezone) do not
\* raise, and resolve in the last valid timezone, the one getContext()
\* reports and the context header names.
C14_LastValidTimezoneUsed ==
    (\/ call.op = "enhancePrompt"
     \/ call.op = "parseDates" /\ call.options.timezone = "") =>
        /\ context.timezone \in ValidTimezones
        /\ ~out.threw
        /\ out.extractions =
                Parse(call.results,
                      [timezone |-> context.timezone, referenceDate |-> clock],
                      clock).value
        /\ (call.op = "enhancePrompt" /\ config.includeContext) =>
                Includes(out.context, "Timezone: " \o context.timezone)

\* C17: only setTimezone and setLocale change the configuration, each its own
\* setting; a per-call strategy, per-call options, formatDate, addContext and
\* a convenience function given a config leave it as it was.
C17_ConfigurationFrame ==
    /\ []((call.op = "enhancePrompt" /\ call.strategy = "" /\ ~out.threw)
            => out.strategy = config.strategy)
    /\ [][/\ (call'.op \notin {"setTimezone", "setLocale"})
                => (config' = config /\ context' = context)
          /\ (call'.op = "setTimezone")
                => /\ config' = [config EXCEPT !.timezone = call'.arg]
                   /\ context'.locale = context.locale
                   /\ context'.now = context.now
          /\ (call'.op = "setLocale")
                => /\ config' = [config EXCEPT !.locale = call'.arg]
                   /\ context'.timezone = context.timezone
                   /\ context'.now = context.now]_vars

\* C17 witness: a convenience call with a config answered for
\* America/Phoenix while the shared instance is still set to Asia/Tokyo and
\* to the locale en
C17_Witness ==
    /\ call.op = "convenienceEnhancePrompt"
    /\ call.config.given
    /\ ~out.threw
    /\ Includes(out.context, "Timezone: America/Phoenix")
    /\ config.timezone = "Asia/Tokyo"
    /\ config.locale = "en"
    /\ context.timezone = "Asia/Tokyo"

-----------------------------------------------------------------------------
(* Properties of tasks sharing an instance (SpecTasks) *)

\* The extractions of the text of task i, resolved in the timezone tz at
\* the instant now
ExtractionsOfTask(i, tz, now) ==
    Parse(TaskResults(i), [timezone |-> tz, referenceDate |-> now], now).value

\* C18: under every interleaving of the tasks' calls, the result of a task
\* that has finished carries the task's own text as originalText, exactly
\* the extractions of that text (one, resolved in a timezone some task
\* set), and a header naming one of the timezones that were set.
C18_TaskResultsAreTheirOwn ==
    \A i \in Tasks :
        (call[i] = "done") =>
            /\ ~out[i].threw
            /\ out[i].originalText = TaskText(i)
            /\ Len(out[i].extractions) = 1
            /\ \E tz \in TaskTimezones, now \in Clocks :
                    out[i].extractions = ExtractionsOfTask(i, tz, now)
            /\ \E tz \in TaskTimezones :
                    Includes(out[i].context, "Timezone: " \o tz)

\* C18 witness: task 0 set Asia/Tokyo, task 1 then set America/Phoenix, and
\* task 0 finished with its own text under the header of task 1's timezone
C18_Witness ==
    /\ call[0] = "done"
    /\ call[1] = "set"
    /\ out[0].originalText = TaskText(0)
    /\ Len(out[0].extractions) = 1
    /\ Includes(out[0].context, "Timezone: America/Phoenix")

-----------------------------------------------------------------------------
(* Properties of the relative and hybrid styles (SpecRelative) *)

\* A count with its unit, the unit plural exactly when the count exceeds one
Counted(n, unit) == NumToString(n) \o " " \o unit \o (IF n > 1 THEN "s" ELSE "")

\* The wording of a magnitude of a >= 2 days: days below 30, months below
\* 365, years from 365
MagnitudeWords(a) ==
    IF a < 30 THEN NumToString(a) \o " days"
    ELSE IF a < 365 THEN Counted((2 * a + 30) \div 60, "month")
    ELSE Counted((2 * a + 365) \div 730, "year")

\* The day difference of the last formatted date
AskedDays == GetDaysDifference(call.date.t, context)

AskedWeekday == FormatWeekdayInTimezone(call.date.t, context)

AskedIsTodayOrTomorrow ==
    \/ IsToday(call.date.t, context, call.at)
    \/ IsTomorrow(call.date.t, context, call.at)

\* C21: today and tomorrow come first; otherwise the day difference D
\* decides: -1 'yesterday', 1..6 'this <weekday>', 7..14 'next <weekday>',
\* 15..29 'in D days', 30..364 'in N month(s)', from 365 'in N year(s)', and
\* for D <= -2 the same counts of |D| followed by 'ago'.
C21_RelativeByDayDifference ==
    (call.op = "format" /\ call.style = "relative") =>
        /\ ~out.threw
        /\ IsToday(call.date.t, context, call.at) => out.value = "today"
        /\ (~IsToday(call.date.t, context, call.at)
                /\ IsTomorrow(call.date.t, context, call.at))
                => out.value = "tomorrow"
        /\ ~AskedIsTodayOrTomorrow =>
            /\ (AskedDays = 0 - 1) => out.value = "yesterday"
            /\ (1 <= AskedDays /\ AskedDays <= 6)
                    => out.value = "this " \o AskedWeekday
            /\ (7 <= AskedDays /\ AskedDays <= 14)
                    => out.value = "next " \o AskedWeekday
            /\ (15 <= AskedDays)
                    => out.value = "in " \o MagnitudeWords(AskedDays)
            /\ (AskedDays <= 0 - 2)
                    => out.value = MagnitudeWords(0 - AskedDays) \o " ago"

\* C21 witness: a date 45 days after the reference was worded 'in 2 months'
\* and is neither today nor tomorrow
C21_Witness ==
    /\ call.op = "format"
    /\ call.style = "relative"
    /\ ~AskedIsTodayOrTomorrow
    /\ AskedDays = 45
    /\ out.value = "in 2 months"

\* How many times w occurs in s
Occurrences(s, w) ==
    Cardinality({i \in 1..(Len(s) - Len(w) + 1) :
                    SubSeq(s, i, i + Len(w) - 1) = w})

AskedRelative == FormatRelative(call.date.t, context, call.at)

AskedCompact == FormatCompact(call.date.t)

\* C22: the hybrid style is the relative text alone when that is today,
\* tomorrow or yesterday or contains the compact date, '<relative>
\* (<YYYY-MM-DD>)' otherwise, so the compact date never occurs twice; the
\* substitution engine's annotation of the same words appends the date always.
C22_FormatterHybridNeverDuplicates ==
    (call.op = "format" /\ call.style = "hybrid") =>
        /\ ~out.threw
        /\ (AskedRelative \in {"today", "tomorrow", "yesterday"}
                \/ Occurrences(AskedRelative, AskedCompact) > 0)
                => out.value = AskedRelative
        /\ (AskedRelative \notin {"today", "tomorrow", "yesterday"}
                /\ Occurrences(AskedRelative, AskedCompact) = 0)
                => out.value = AskedRelative \o " (" \o AskedCompact \o ")"
        /\ Occurrences(out.value, AskedCompact) <= 1
        /\ FormatDateWithOriginal(call.date.t, AskedRelative, "day")
                = AskedRelative \o " (" \o AskedCompact \o ")"

\* C22 witness: the hybrid style answered the compact date alone (a date of
\* day difference 0 that is no longer today), where the engine's annotation
\* holds the date twice
C22_Witness ==
    /\ call.op = "format"
    /\ call.style = "hybrid"
    /\ out.value = AskedCompact
    /\ Occurrences(FormatDateWithOriginal(call.date.t, AskedRelative, "day"),
                   AskedCompact) = 2

-----------------------------------------------------------------------------
(* Properties of the custom rules (SpecRules) *)

\* The day number of the reference date, where the rule reads it
ReferenceDay == SystemDay(call.referenceDate)

\* The day number of the resolved date in the timezone of the call
ResolvedDay ==
    (out.extraction.resolvedDate + UtcOffset(call.timezone)) \div SecondsPerDay

\* Monday to Friday
IsBusinessDay(n) == GetDay(n) \in 1..5

\* The Monday after day n
FollowingMonday(n) == CHOOSE m \in (n + 1)..(n + 7) : GetDay(m) = 1

\* C23: 'next ...' is the earliest Monday-to-Friday date strictly after the
\* reference date (1 to 3 days ahead, the following Monday for a Friday,
\* Saturday or Sunday); 'this ...' is the reference date when it is such a
\* date and the following Monday otherwise; never a Saturday or Sunday.
C23_BusinessDayRule ==
    (call.op = "businessDay") =>
        /\ IsBusinessDay(ResolvedDay)
        /\ RuleComponents(ResolvedDay) = out.components
        /\ (call.word = "next") =>
            /\ ResolvedDay - ReferenceDay \in 1..3
            /\ \A n \in (ReferenceDay + 1)..(ResolvedDay - 1) :
                    ~IsBusinessDay(n)
            /\ (GetDay(ReferenceDay) \in {5, 6, 0})
                    => ResolvedDay = FollowingMonday(ReferenceDay)
        /\ (call.word = "this") =>
                ResolvedDay = IF IsBusinessDay(ReferenceDay)
                              THEN ReferenceDay
                              ELSE FollowingMonday(ReferenceDay)

\* C23 witness: 'next workday' asked on Friday 2025-01-03 for Asia/Tokyo
\* resolved to Monday 2025-01-06
C23_Witness ==
    /\ call.op = "businessDay"
    /\ call.text = "next workday"
    /\ call.timezone = "Asia/Tokyo"
    /\ RuleComponents(ReferenceDay) = [year |-> 2025, month |-> 1, day |-> 3]
    /\ RuleComponents(ResolvedDay) = [year |-> 2025, month |-> 1, day |-> 6]

\* The Friday of the week that contains day n, for a week beginning on
\* Sunday and for a week beginning on Monday
FridayOfSundayWeek(n) == n - GetDay(n) + 5

FridayOfMondayWeek(n) == n - ((GetDay(n) + 6) % 7) + 4

\* C24: 'end of week' / 'end of this week' resolves to a Friday, the Friday
\* of the week that contains the reference day (whichever day the week
\* begins on); the reference day itself exactly when it is a Friday.
C24_EndOfWeekIsFridayOfThisWeek ==
    (call.op = "endOfPeriod" /\ call.period = "week") =>
        /\ GetDay(ResolvedDay) = 5
        /\ ResolvedDay \in {FridayOfSundayWeek(ReferenceDay),
                             FridayOfMondayWeek(ReferenceDay)}
        /\ (ResolvedDay = ReferenceDay) <=> (GetDay(ReferenceDay) = 5)

\* The last day of month m of year y, as a day number
LastDayOfMonth(y, m) == DaysFromCivil(y, m, DaysInMonth(y, m))

ReferenceCivil == CivilFromDays(ReferenceDay)

\* C25: 'end of month', 'end of quarter' and 'end of year' resolve to the
\* last calendar day of the month, of the quarter and of the year that
\* contain the reference date, never to a day of the following period.
C25_EndOfPeriodIsLastDay ==
    (call.op = "endOfPeriod" /\ call.period # "week") =>
        /\ RuleComponents(ResolvedDay) = out.components
        /\ ResolvedDay >= ReferenceDay
        /\ (call.period = "month") =>
                ResolvedDay = LastDayOfMonth(ReferenceCivil.year,
                                             ReferenceCivil.month)
        /\ (call.period = "quarter") =>
                ResolvedDay =
                    LastDayOfMonth(ReferenceCivil.year,
                                   3 * ((ReferenceCivil.month + 2) \div 3))
        /\ (call.period = "year") =>
                ResolvedDay = DaysFromCivil(ReferenceCivil.year, 12, 31)

\* C25 witness: 'end of month' asked on 2024-02-10 resolved to 2024-02-29
C25_Witness ==
    /\ call.op = "endOfPeriod"
    /\ call.text = "end of month"
    /\ ReferenceCivil = [year |-> 2024, month |-> 2, day |-> 10]
    /\ RuleComponents(ResolvedDay) = [year |-> 2024, month |-> 2, day |-> 29]

-----------------------------------------------------------------------------
(* Properties of the token estimate (Spec) *)

\* The number of whitespace-separated words of s: the places where a word
\* ends
WordsOf(s) ==
    Cardinality({i \in 1..Len(s) :
        /\ SubSeq(s, i, i) \notin {" ", "\n", "\t"}
        /\ (i = Len(s) \/ SubSeq(s, i + 1, i + 1) \in {" ", "\n", "\t"})})

\* T(s) = ceil(0.75 x words): the least k with 4 k >= 3 words
TokensOf(s) == CHOOSE k \in 0..Len(s) : 4 * k >= 3 * WordsOf(s)
                                        /\ 4 * (k - 1) < 3 * WordsOf(s)

\* C26: tokensAdded = T(context) + T(enhancedText) - T(originalText), T being
\* 0 for an empty or blank text and the context term 0 without context; 0
\* for 'preserve' without context.
C26_TokensAdded ==
    Enhanced =>
        /\ out.tokensAdded = TokensOf(out.context) + TokensOf(out.enhancedText)
                                - TokensOf(out.originalText)
        /\ ~config.includeContext => TokensOf(out.context) = 0
        /\ (out.originalText \in {"", "   "}) => TokensOf(out.originalText) = 0
        /\ (out.strategy = "preserve" /\ ~config.includeContext)
                => out.tokensAdded = 0

\* C26 witness: without context, 'normalize' replaced several words by one
\* date and tokensAdded is negative
C26_Witness ==
    /\ Enhanced
    /\ ~config.includeContext
    /\ out.strategy = "normalize"
    /\ WordsOf(out.enhancedText) < WordsOf(out.originalText)
    /\ out.tokensAdded < 0

-----------------------------------------------------------------------------
(* Properties of the dates written into the text (Spec) *)

\* YYYY-MM-DD of the instant's calendar date in timezone tz
LocalDateOf(date, tz) == CompactDateOf(date + UtcOffset(tz))

\* C27: for a day-grain extraction, the YYYY-MM-DD that 'normalize' and
\* 'hybrid' put into the text is the calendar date of the resolved instant
\* in the configured timezone.
C27_WrittenDateIsLocalDate ==
    (Enhanced /\ out.strategy \in {"normalize", "hybrid"}) =>
        \A i \in 1..Len(out.extractions) :
            (out.extractions[i].grain = "day") =>
                Includes(Replacement(out.extractions[i], out.strategy,
                                     CallContext),
                         LocalDateOf(out.extractions[i].resolvedDate,
                                     config.timezone))

-----------------------------------------------------------------------------
(* Properties of dates given in full (SpecParser) *)

\* A match without today, tomorrow or yesterday whose year, month and day
\* the grammar supplied
GivenInFull ==
    /\ Parsed
    /\ \A w \in {"today", "tomorrow", "yesterday"} :
            Occurrences(ToLowerCase(TheMatch.text), w) = 0
    /\ TheMatch.year # Null /\ TheMatch.month # Null /\ TheMatch.day # Null

\* The seconds into the day the certain time components give
CertainTimeOfDay(m) ==
    (IF "hour" \in m.certain THEN m.hour * 3600 ELSE 0)
        + (IF "minute" \in m.certain THEN m.minute * 60 ELSE 0)
        + (IF "second" \in m.certain THEN m.second ELSE 0)

-----------------------------------------------------------------------------
(* Properties of the type as one test (SpecParser) *)

\* The lower-cased matched text contains one of the broader keywords
HasBroaderKeyword ==
    \E keyword \in RelativeKeywords :
        Occurrences(ToLowerCase(TheMatch.text), keyword) > 0

\* C29: an extraction is relative exactly when its lower-cased matched text
\* contains one of the broader relative keywords, which include every
\* strong marker; whether an absolute pattern matches changes nothing.
C29_TypeIsKeywordTest ==
    /\ StrongRelativeIndicators \subseteq RelativeKeywords
    /\ Parsed =>
            (TheExtraction.type = IF HasBroaderKeyword THEN "relative"
                                  ELSE "absolute")

\* C29 witness: 'in 2025' matches the year pattern, has the keyword 'in' and
\* no strong marker, and is relative
C29_Witness ==
    /\ Parsed
    /\ TheMatch.text = "in 2025"
    /\ MatchesAbsoluteIndicator(ToLowerCase(TheMatch.text))
    /\ \A indicator \in StrongRelativeIndicators :
            Occurrences(ToLowerCase(TheMatch.text), indicator) = 0
    /\ TheExtraction.type = "relative"

-----------------------------------------------------------------------------
(* Properties of the context header (SpecEngine) *)

\* The header of the last call, when it produced one
HeaderShown ==
    IF call.op = "addContext" THEN out.value ELSE out.context

HasHeader ==
    \/ call.op = "addContext"
    \/ call.op = "enhancePrompt" /\ ~out.threw /\ config.includeContext

\* The weekday and the year of the calendar date YYYY-MM-DD the header
\* shows, the date being day number n
WeekdayOfDay(n) == WeekdayNames[GetDay(n) + 1]

\* C30: the weekday and the year in 'Current date: <date> (<weekday>,
\* <year>)' are the weekday and the year of the date shown, for every
\* instant and every configured timezone.
C30_HeaderWeekdayMatchesDate ==
    HasHeader =>
        \E n \in {clock \div SecondsPerDay} :
            Includes(HeaderShown,
                     "Current date: " \o CompactDateOf(n * SecondsPerDay)
                        \o " (" \o WeekdayOfDay(n) \o ", "
                        \o NumToString(CivilFromDays(n).year) \o ")")

=============================================================================
